---- MODULE Spec2Model ----
(***************************************************************************)
(* Model of mcp-swagger-client: the on-disk spec cache (cache.ts, bundled  *)
(* in src/src/index.ts), the session memo of SwaggerClient                 *)
(* (src/src/swagger-client.ts) and the $ref resolver (src/src/parser.ts).  *)
(*                                                                         *)
(* The cache part is a state machine: tool requests of one server session  *)
(* run concurrently (one per element of Procs), every await of the source  *)
(* is a step boundary, and the remote server and the filesystem are the    *)
(* environment.                                                            *)
(***************************************************************************)
EXTENDS Integers, Sequences, FiniteSets, TLC

----------------------------------------------------------------------------
(* Bounds of the model *)

\* the remote document is republished at most MaxDoc - 1 times
MaxDoc == 3

----------------------------------------------------------------------------
(* Values *)

\* concurrent tool requests of one session
Procs == {"p1", "p2"}

\* undefined / missing header or field
None == "none"

\* the validator tokens of the successive remote documents
EtagTokens == <<"v1", "v2", "v3", "v4", "v5">>

LmTokens == <<"t1", "t2", "t3", "t4", "t5">>

\* the headers a server sends for document d: an ETag if etagOn, a
\* Last-Modified if lmOn
EtagOf(d, etagOn) == IF etagOn THEN EtagTokens[d] ELSE None

LmOf(d, lmOn) == IF lmOn THEN LmTokens[d] ELSE None

\* the configured document URL and another URL whose entry may be on disk
ConfigUrl == "u1"

OtherUrl == "u2"

Urls == {ConfigUrl, OtherUrl}

\* JavaScript truthiness of an optional string (undefined and "" are falsy)
Truthy(v) == v # None /\ v # ""

\* file contents: no file, a file that does not parse, or a parsed CacheEntry
Absent == [kind |-> "absent"]

Corrupt == [kind |-> "corrupt"]

\* readCacheEntry's null
NoEntry == [kind |-> "null"]

CacheEntry(url, etag, lastModified, cachedAt, spec) ==
    [kind |-> "entry", url |-> url, etag |-> etag, lastModified |-> lastModified,
     cachedAt |-> cachedAt, spec |-> spec]

\* the entry a previous session left for OtherUrl
OtherEntry == CacheEntry(OtherUrl, "v1", None, 0, 1)

\* mutant: every URL is given the same file
getCacheFilePath_OneFile(url) == "5ac1.json"

getCacheFilePath_Collide(url) == "9e07.json"

\* SHA-256 of the URL, hex encoded, plus ".json": collision free on Urls
getCacheFilePath(url) == IF url = ConfigUrl THEN "5ac1.json" ELSE "9e07.json"

Paths == {getCacheFilePath(u) : u \in Urls}

----------------------------------------------------------------------------
(* State *)

VARIABLES
    remote,     \* what the server serves for ConfigUrl: [doc, etagOn, lmOn]
    files,      \* the cache directory: path -> file content
    clientSpec, \* SwaggerClient.spec: 0 is null, otherwise the held document
    proc,       \* per request: position and locals of the running call
    concurrent, \* whether the session receives a request while another runs
    pure        \* the pure functions: the arguments and the result of a call

vars == <<remote, files, clientSpec, proc, concurrent, pure>>

\* locals of a request that is not running
IdleProc ==
    [pc |-> "idle", op |-> "none", url |-> None,
     cachedEntry |-> NoEntry, newEntry |-> NoEntry, head |-> [kind |-> "none"],
     isModified |-> FALSE, get |-> [kind |-> "none"], overlapped |-> FALSE,
     unlinked |-> FALSE, listed |-> {}, unlinkFailed |-> FALSE,
     held |-> FALSE, afterClear |-> FALSE, unreadable |-> FALSE, heads |-> 0, gets |-> 0, opens |-> 0,
     writes |-> 0,
     path |-> "none", ret |-> [kind |-> "none"]]

Doc(d) == [kind |-> "doc", doc |-> d]

Raise(kind, cause) == [kind |-> kind, cause |-> cause]

InitSession ==
    /\ remote \in [doc : {1}, etagOn : BOOLEAN, lmOn : BOOLEAN]
    /\ files = [f \in Paths |->
                  IF f = getCacheFilePath(OtherUrl) THEN OtherEntry ELSE Absent]
    /\ clientSpec = 0
    /\ proc = [p \in Procs |-> IdleProc]

\* no pure function is under test
NoCall == [fn |-> "none"]

\* a session whose requests arrive one after the other
Init ==
    /\ InitSession
    /\ concurrent = FALSE
    /\ pure = NoCall

\* a session whose requests overlap
InitConcurrent ==
    /\ InitSession
    /\ remote.etagOn /\ ~remote.lmOn
    /\ concurrent = TRUE
    /\ pure = NoCall

\* request p may start: in a sequential session only when no other runs
Admit(p) ==
    concurrent \/ \A q \in Procs \ {p} : proc[q].pc \in {"idle", "done", "raised"}

\* history: request q is a cache-clear covering ConfigUrl's entry that has
\* completed, and no getSpec has been called since
Cleared(q) ==
    /\ proc[q].pc = "done"
    /\ \/ proc[q].op = "clearCache" /\ proc[q].url = ConfigUrl
       \/ proc[q].op = "clearAllCache"

cleared == \E q \in Procs : Cleared(q)

\* A finished call stays in "done" or "raised", with the history of the call,
\* for exactly one state: handing the answer to the tool handler (Return) is
\* local to the request, so it is taken before anything else moves. Only a
\* completed cache-clear may stay, to be seen by the next getSpec.
Quiet == \A q \in Procs : proc[q].pc \in {"done", "raised"} => Cleared(q)

----------------------------------------------------------------------------
(* The environment: the remote server *)

\* the server publishes a new document, with new validator tokens
RemoteUpdate ==
    /\ Quiet
    /\ remote.doc < MaxDoc
    /\ remote' = [remote EXCEPT !.doc = @ + 1]
    /\ UNCHANGED <<files, clientSpec, proc, concurrent, pure>>

\* new Date(): time is counted in publications of the remote document
Now == remote.doc

RemoteEtag == EtagOf(remote.doc, remote.etagOn)

RemoteLm == LmOf(remote.doc, remote.lmOn)

\* responses to axios.head(config.url): no response at all, or a status with
\* the validators the server currently sends
HeadResponses ==
    {[kind |-> "neterr", status |-> 0, etag |-> None, lm |-> None]}
    \cup {[kind |-> "response", status |-> s, etag |-> None, lm |-> None] :
             s \in {404, 405, 500}}
    \cup {[kind |-> "response", status |-> 200, etag |-> RemoteEtag, lm |-> RemoteLm]}

\* responses to axios.get(config.url)
GetResponses ==
    {[kind |-> "neterr", status |-> 0, doc |-> 0, etag |-> None, lm |-> None]}
    \cup {[kind |-> "response", status |-> s, doc |-> 0, etag |-> None, lm |-> None] :
             s \in {204, 404, 500}}
    \cup {[kind |-> "response", status |-> 200, doc |-> remote.doc,
           etag |-> RemoteEtag, lm |-> RemoteLm]}


----------------------------------------------------------------------------
(* cache.ts: the functions between the awaits *)

readCacheEntry_Unparsed(content) ==
    IF content.kind = "entry" THEN content ELSE CacheEntry(ConfigUrl, None, None, 0, 0)

\* JSON.parse of the file content; a missing or unparsable file gives null
readCacheEntry(content) ==
    IF content.kind = "entry" THEN content ELSE NoEntry

\* mutant: the ETag comparison inverted (=== for !==)
checkIfModified_EtagInverted(response, cachedEntry) ==
    IF response.kind = "neterr" \/ ~(response.status < 500) THEN TRUE
    ELSE IF response.status = 405 THEN TRUE
    ELSE IF response.status >= 400 THEN TRUE
    ELSE IF Truthy(response.etag) /\ Truthy(cachedEntry.etag)
         THEN response.etag = cachedEntry.etag
    ELSE IF Truthy(response.lm) /\ Truthy(cachedEntry.lastModified)
         THEN response.lm # cachedEntry.lastModified
    ELSE TRUE

\* mutant: no fall back to Last-Modified
checkIfModified_NoLmFallback(response, cachedEntry) ==
    IF response.kind = "neterr" \/ ~(response.status < 500) THEN TRUE
    ELSE IF response.status = 405 THEN TRUE
    ELSE IF response.status >= 400 THEN TRUE
    ELSE IF Truthy(response.etag) /\ Truthy(cachedEntry.etag)
         THEN response.etag # cachedEntry.etag
    ELSE TRUE

\* mutant: a failed HEAD request taken as "not modified"
checkIfModified_ErrorFresh(response, cachedEntry) ==
    IF response.kind = "neterr" \/ ~(response.status < 500) THEN FALSE
    ELSE IF response.status = 405 THEN TRUE
    ELSE IF response.status >= 400 THEN TRUE
    ELSE IF Truthy(response.etag) /\ Truthy(cachedEntry.etag)
         THEN response.etag # cachedEntry.etag
    ELSE IF Truthy(response.lm) /\ Truthy(cachedEntry.lastModified)
         THEN response.lm # cachedEntry.lastModified
    ELSE TRUE

checkIfModified_NoValidatorsFresh(response, cachedEntry) ==
    IF response.kind = "neterr" \/ ~(response.status < 500) THEN TRUE
    ELSE IF response.status = 405 THEN TRUE
    ELSE IF response.status >= 400 THEN TRUE
    ELSE IF Truthy(response.etag) /\ Truthy(cachedEntry.etag)
         THEN response.etag # cachedEntry.etag
    ELSE IF Truthy(response.lm) /\ Truthy(cachedEntry.lastModified)
         THEN response.lm # cachedEntry.lastModified
    ELSE FALSE

\* the decision of checkIfModified on the outcome of the HEAD request; a
\* transport error, or a status that validateStatus (status < 500) rejects,
\* is thrown by axios and lands in the catch
checkIfModified(response, cachedEntry) ==
    IF response.kind = "neterr" \/ ~(response.status < 500) THEN TRUE
    ELSE IF response.status = 405 THEN TRUE
    ELSE IF response.status >= 400 THEN TRUE
    ELSE IF Truthy(response.etag) /\ Truthy(cachedEntry.etag)
         THEN response.etag # cachedEntry.etag
    ELSE IF Truthy(response.lm) /\ Truthy(cachedEntry.lastModified)
         THEN response.lm # cachedEntry.lastModified
    ELSE TRUE

\* mutant: the status of the response is not looked at
fetchSpec_NoStatusCheck(response) ==
    IF response.kind = "neterr"
    THEN [ok |-> FALSE, error |-> Raise("FetchError", [what |-> "No response", status |-> 0])]
    ELSE [ok |-> TRUE, spec |-> response.doc, etag |-> response.etag,
          lastModified |-> response.lm]

\* fetchSpec on the outcome of the GET request: axios throws unless the status
\* is 2xx, the body throws unless it is 200, and every throw is rewrapped as
\* "Failed to fetch Swagger spec: ..." naming the status or the transport cause
fetchSpec(response) ==
    IF response.kind = "neterr"
    THEN [ok |-> FALSE, error |-> Raise("FetchError", [what |-> "No response", status |-> 0])]
    ELSE IF ~(response.status >= 200 /\ response.status < 300)
    THEN [ok |-> FALSE, error |-> Raise("FetchError", [what |-> "HTTP", status |-> response.status])]
    ELSE IF response.status # 200
    THEN [ok |-> FALSE, error |-> Raise("FetchError", [what |-> "HTTP", status |-> response.status])]
    ELSE [ok |-> TRUE, spec |-> response.doc, etag |-> response.etag,
          lastModified |-> response.lm]

\* mutant: the catch of the stale path rethrows
getCachedSpecOnError_Rethrow(cachedEntry, error) == error

\* getCachedSpec when fetchSpec or writeCacheEntry threw: without an entry the
\* error propagates, with one the catch returns the entry's document
getCachedSpecOnError(cachedEntry, error) ==
    IF cachedEntry = NoEntry THEN error ELSE Doc(cachedEntry.spec)

\* mutant: the new entry is built without the response's Last-Modified
newCacheEntry_NoLastModified(fetched, now) ==
    CacheEntry(ConfigUrl, fetched.etag, None, now, fetched.spec)

\* the entry getCachedSpec builds from a successful fetch
newCacheEntry(fetched, now) ==
    CacheEntry(ConfigUrl, fetched.etag, fetched.lastModified, now, fetched.spec)

\* what writeFile leaves in the file: the entry, or, when another writer's
\* data landed in the same file after this writer opened it, possibly a mix
writeFileResults(entry, overlapped) ==
    IF overlapped THEN {entry, Corrupt} ELSE {entry}

----------------------------------------------------------------------------
(* SwaggerClient and getCachedSpec as steps *)

\* getCachedSpec up to its first await of I/O: existsSync(filePath)
EnterGetCachedSpec(op, afterClear) ==
    LET exists == files[getCacheFilePath(ConfigUrl)] # Absent IN
    [IdleProc EXCEPT !.op = op, !.url = ConfigUrl, !.afterClear = afterClear,
                     !.pc = IF exists THEN "readFile" ELSE "fetch"]

GetSpec_NoMemo(p) ==
    /\ Quiet
    /\ Admit(p)
    /\ proc[p].pc = "idle"
    /\ proc' = [q \in Procs |->
                  IF q = p THEN EnterGetCachedSpec("getSpec", cleared)
                  ELSE IF Cleared(q) THEN IdleProc ELSE proc[q]]
    /\ UNCHANGED <<remote, files, clientSpec, concurrent, pure>>

\* SwaggerClient.getSpec: the held document, or getCachedSpec
GetSpec(p) ==
    /\ Quiet
    /\ Admit(p)
    /\ proc[p].pc = "idle"
    /\ proc' = [q \in Procs |->
                  IF q = p
                  THEN IF clientSpec # 0
                       THEN [IdleProc EXCEPT !.op = "getSpec", !.url = ConfigUrl,
                                             !.held = TRUE, !.afterClear = cleared,
                                             !.pc = "done", !.path = "memo",
                                             !.ret = Doc(clientSpec)]
                       ELSE EnterGetCachedSpec("getSpec", cleared)
                  ELSE IF Cleared(q) THEN IdleProc ELSE proc[q]]
    /\ UNCHANGED <<remote, files, clientSpec, concurrent, pure>>

\* SwaggerClient.refreshSpec: always getCachedSpec
RefreshSpec(p) ==
    /\ Quiet
    /\ Admit(p)
    /\ proc[p].pc = "idle"
    /\ proc' = [proc EXCEPT ![p] = EnterGetCachedSpec("refreshSpec", FALSE)]
    /\ UNCHANGED <<remote, files, clientSpec, concurrent, pure>>

\* readCacheEntry: readFile and JSON.parse; every failure gives null
ReadFile(p) ==
    /\ Quiet
    /\ proc[p].pc = "readFile"
    /\ LET entry == readCacheEntry(files[getCacheFilePath(proc[p].url)]) IN
       proc' = [proc EXCEPT ![p].cachedEntry = entry,
                            ![p].unreadable =
                               files[getCacheFilePath(proc[p].url)].kind # "entry",
                            ![p].pc = IF entry = NoEntry THEN "fetch" ELSE "head"]
    /\ UNCHANGED <<remote, files, clientSpec, concurrent, pure>>

\* checkIfModified: the HEAD request and the decision; fresh returns the
\* cached document, which getSpec/refreshSpec store in this.spec
HeadCheck(p) ==
    /\ Quiet
    /\ proc[p].pc = "head"
    /\ \E r \in HeadResponses :
          LET modified == checkIfModified(r, proc[p].cachedEntry) IN
          IF modified
          THEN /\ proc' = [proc EXCEPT ![p].head = r, ![p].heads = @ + 1,
                                       ![p].isModified = TRUE, ![p].pc = "fetch"]
               /\ UNCHANGED clientSpec
          ELSE /\ proc' = [proc EXCEPT ![p].head = r, ![p].heads = @ + 1,
                                       ![p].isModified = FALSE, ![p].pc = "done",
                                       ![p].ret = Doc(proc[p].cachedEntry.spec),
                                       ![p].path = "fresh"]
               /\ clientSpec' = proc[p].cachedEntry.spec
    /\ UNCHANGED <<remote, files, concurrent, pure>>

\* history: once the call has moved on to the GET, a HEAD outcome that
\* carried no validators is remembered only as "failed"
HeadSeen(head) ==
    IF head.kind = "none" \/ (head.kind = "response" /\ head.status = 200)
    THEN head
    ELSE [kind |-> "failed", status |-> 0, etag |-> None, lm |-> None]

\* the end of a call of getCachedSpec with `result`: a document is stored in
\* this.spec and returned, an error propagates and leaves this.spec alone
Finish(p, result, path) ==
    /\ proc' = [proc EXCEPT ![p].pc = IF result.kind = "doc" THEN "done" ELSE "raised",
                            ![p].ret = result,
                            ![p].path = IF result.kind = "doc" THEN path ELSE "failed"]
    /\ clientSpec' = IF result.kind = "doc" THEN result.doc ELSE clientSpec

Fetch_CheckValidators(p) ==
    /\ Quiet
    /\ proc[p].pc = "fetch"
    /\ \E r \in GetResponses :
          IF fetchSpec(r).ok
          THEN /\ proc' = [proc EXCEPT
                             ![p].get = r, ![p].gets = @ + 1,
                             ![p].newEntry =
                                IF proc[p].head.kind = "response"
                                THEN CacheEntry(ConfigUrl, proc[p].head.etag,
                                                proc[p].head.lm, Now, r.doc)
                                ELSE newCacheEntry(fetchSpec(r), Now),
                             ![p].pc = "write"]
               /\ UNCHANGED clientSpec
          ELSE Finish(p, getCachedSpecOnError(proc[p].cachedEntry, fetchSpec(r).error),
                      "fallback")
    /\ UNCHANGED <<remote, files, concurrent, pure>>

Fetch_Retry(p) ==
    /\ Quiet
    /\ proc[p].pc = "fetch"
    /\ \E r \in GetResponses :
          IF fetchSpec(r).ok
          THEN proc' = [proc EXCEPT ![p].get = r, ![p].gets = @ + 1,
                                    ![p].newEntry = newCacheEntry(fetchSpec(r), Now),
                                    ![p].pc = "write"]
          ELSE proc' = [proc EXCEPT ![p].get = r, ![p].gets = @ + 1]
    /\ UNCHANGED <<remote, files, clientSpec, concurrent, pure>>

\* fetchSpec: the GET request; success builds the new entry, failure falls
\* back to the entry read or propagates
Fetch(p) ==
    /\ Quiet
    /\ proc[p].pc = "fetch"
    /\ \E r \in GetResponses :
          LET fetched == fetchSpec(r)
              seen == [proc EXCEPT ![p].get = r, ![p].gets = @ + 1,
                                   ![p].head = HeadSeen(@)]
          IN
          IF fetched.ok
          THEN /\ proc' = [seen EXCEPT ![p].newEntry = newCacheEntry(fetched, Now),
                                       ![p].pc = "write"]
               /\ UNCHANGED clientSpec
          ELSE LET result == getCachedSpecOnError(proc[p].cachedEntry, fetched.error) IN
               /\ proc' = [seen EXCEPT ![p].pc = IF result.kind = "doc" THEN "done" ELSE "raised",
                                       ![p].ret = result,
                                       ![p].path = IF result.kind = "doc" THEN "fallback" ELSE "failed"]
               /\ clientSpec' = IF result.kind = "doc" THEN result.doc ELSE clientSpec
    /\ UNCHANGED <<remote, files, concurrent, pure>>

WriteOpen_ReturnFirst(p) ==
    /\ Quiet
    /\ proc[p].pc = "write"
    /\ proc' = [proc EXCEPT ![p].pc = "done",
                            ![p].ret = Doc(proc[p].newEntry.spec),
                            ![p].path = IF proc[p].cachedEntry = NoEntry
                                        THEN "created" ELSE "refreshed"]
    /\ clientSpec' = proc[p].newEntry.spec
    /\ UNCHANGED <<remote, files, concurrent, pure>>

\* writeCacheEntry: ensureCacheDir, then writeFile opens the file, which
\* truncates it
WriteOpen(p) ==
    /\ Quiet
    /\ proc[p].pc = "write"
    /\ files' = [files EXCEPT ![getCacheFilePath(proc[p].url)] = Corrupt]
    /\ proc' = [proc EXCEPT ![p].pc = "writing", ![p].opens = @ + 1]
    /\ UNCHANGED <<remote, clientSpec, concurrent, pure>>

WriteData_Recreates(p) ==
    /\ Quiet
    /\ proc[p].pc = "writing"
    /\ files' = [files EXCEPT ![getCacheFilePath(proc[p].url)] = proc[p].newEntry]
    /\ proc' = [proc EXCEPT ![p].pc = "done", ![p].writes = @ + 1,
                            ![p].ret = Doc(proc[p].newEntry.spec),
                            ![p].path = IF proc[p].cachedEntry = NoEntry
                                        THEN "created" ELSE "refreshed"]
    /\ clientSpec' = proc[p].newEntry.spec
    /\ UNCHANGED <<remote, concurrent, pure>>

\* writeFile writes the data and the call returns the fetched document
WriteData(p) ==
    /\ Quiet
    /\ proc[p].pc = "writing"
    /\ LET f == getCacheFilePath(proc[p].url)
           path == IF proc[p].cachedEntry = NoEntry THEN "created" ELSE "refreshed"
       IN
       /\ IF proc[p].unlinked
          THEN UNCHANGED files
          ELSE \E content \in writeFileResults(proc[p].newEntry, proc[p].overlapped) :
                  files' = [files EXCEPT ![f] = content]
       /\ proc' = [q \in Procs |->
                     IF q = p
                     THEN [proc[p] EXCEPT !.pc = "done", !.writes = @ + 1,
                                          !.ret = Doc(proc[p].newEntry.spec),
                                          !.path = path]
                     ELSE IF proc[q].pc = "writing" /\ ~proc[p].unlinked
                          THEN [proc[q] EXCEPT !.overlapped = TRUE]
                          ELSE proc[q]]
       /\ clientSpec' = proc[p].newEntry.spec
    /\ UNCHANGED <<remote, concurrent, pure>>

\* mkdir or writeFile fails (no space, no permission): in the stale path the
\* catch returns the cached document, without an entry the error propagates
WriteFail(p) ==
    /\ Quiet
    /\ proc[p].pc \in {"write", "writing"}
    /\ Finish(p, getCachedSpecOnError(proc[p].cachedEntry,
                                      Raise("FsError", [what |-> "write", status |-> 0])),
              "fallback")
    /\ UNCHANGED <<remote, files, concurrent, pure>>

----------------------------------------------------------------------------
(* The cache-clear tool: clearCache(url) and clearAllCache() *)

\* a file is unlinked: writers that hold it open keep writing to the
\* unlinked file, which no later reader sees
UnlinkFile(self, f) ==
    [q \in Procs |->
        IF q # self /\ proc[q].pc = "writing" /\ getCacheFilePath(proc[q].url) = f
        THEN [proc[q] EXCEPT !.unlinked = TRUE]
        ELSE proc[q]]

\* clearCache up to its first await: existsSync; nothing to do without a file
ClearCache(p, url) ==
    /\ Quiet
    /\ Admit(p)
    /\ proc[p].pc = "idle"
    /\ LET exists == files[getCacheFilePath(url)] # Absent IN
       /\ proc' = [proc EXCEPT ![p] =
                     [IdleProc EXCEPT !.op = "clearCache", !.url = url,
                                      !.pc = IF exists THEN "unlink" ELSE "done",
                                      !.path = IF exists THEN "none" ELSE "noop"]]
    /\ UNCHANGED <<remote, files, clientSpec, concurrent, pure>>

\* clearCache: unlink, which throws when the file is gone by now
Unlink(p) ==
    /\ Quiet
    /\ proc[p].pc = "unlink"
    /\ LET f == getCacheFilePath(proc[p].url) IN
       IF files[f] = Absent
       THEN /\ proc' = [proc EXCEPT ![p].pc = "raised", ![p].path = "failed",
                                    ![p].ret = Raise("FsError", [what |-> "ENOENT", status |-> 0])]
            /\ UNCHANGED <<files, concurrent, pure>>
       ELSE /\ files' = [files EXCEPT ![f] = Absent]
            /\ proc' = [UnlinkFile(p, f) EXCEPT ![p].pc = "done", ![p].path = "unlinked"]
    /\ UNCHANGED <<remote, clientSpec, concurrent, pure>>

\* clearAllCache up to its first await
ClearAllCache(p) ==
    /\ Quiet
    /\ Admit(p)
    /\ proc[p].pc = "idle"
    /\ proc' = [proc EXCEPT ![p] = [IdleProc EXCEPT !.op = "clearAllCache", !.pc = "readdir"]]
    /\ UNCHANGED <<remote, files, clientSpec, concurrent, pure>>

\* clearAllCache: readdir lists the .json files
ReadDir(p) ==
    /\ Quiet
    /\ proc[p].pc = "readdir"
    /\ LET listed == {f \in Paths : files[f] # Absent} IN
       /\ proc' = [proc EXCEPT ![p].listed = listed,
                               ![p].pc = IF listed = {} THEN "done" ELSE "unlinkAll",
                               ![p].path = IF listed = {} THEN "noop" ELSE "none"]
    /\ UNCHANGED <<remote, files, clientSpec, concurrent, pure>>

\* clearAllCache: one of the unlinks under Promise.all; the call ends when
\* all have ended, rejected if any of them threw
UnlinkOne(p, f) ==
    /\ Quiet
    /\ proc[p].pc = "unlinkAll"
    /\ f \in proc[p].listed
    /\ LET failed == proc[p].unlinkFailed \/ files[f] = Absent
           rest == proc[p].listed \ {f}
           pc == IF rest # {} THEN "unlinkAll" ELSE IF failed THEN "raised" ELSE "done"
       IN
       /\ files' = [files EXCEPT ![f] = Absent]
       /\ proc' = [UnlinkFile(p, f) EXCEPT
                     ![p].listed = rest, ![p].unlinkFailed = failed, ![p].pc = pc,
                     ![p].path = IF pc = "done" THEN "unlinked"
                                 ELSE IF pc = "raised" THEN "failed" ELSE "none",
                     ![p].ret = IF pc = "raised"
                                THEN Raise("FsError", [what |-> "ENOENT", status |-> 0])
                                ELSE proc[p].ret]
    /\ UNCHANGED <<remote, clientSpec, concurrent, pure>>

----------------------------------------------------------------------------
(* Session *)

\* the tool handler has its answer; the request is over
Return(p) ==
    /\ proc[p].pc \in {"done", "raised"}
    /\ proc' = [proc EXCEPT ![p] = IdleProc]
    /\ UNCHANGED <<remote, files, clientSpec, concurrent, pure>>

\* the server process is started again: new SwaggerClient, spec = null
Restart ==
    /\ \A p \in Procs : proc[p].pc = "idle"
    /\ clientSpec # 0
    /\ clientSpec' = 0
    /\ UNCHANGED <<remote, files, proc, concurrent, pure>>

Next ==
    \/ RemoteUpdate
    \/ Restart
    \/ \E p \in Procs : GetSpec(p)
    \/ \E p \in Procs : RefreshSpec(p)
    \/ \E p \in Procs : ReadFile(p)
    \/ \E p \in Procs : HeadCheck(p)
    \/ \E p \in Procs : Fetch(p)
    \/ \E p \in Procs : WriteOpen(p)
    \/ \E p \in Procs : WriteData(p)
    \/ \E p \in Procs : WriteFail(p)
    \/ \E p \in Procs, u \in Urls : ClearCache(p, u)
    \/ \E p \in Procs : Unlink(p)
    \/ \E p \in Procs : ClearAllCache(p)
    \/ \E p \in Procs : ReadDir(p)
    \/ \E p \in Procs, f \in Paths : UnlinkOne(p, f)
    \/ \E p \in Procs : Return(p)

----------------------------------------------------------------------------
(* checkIfModified as a function of the stored entry and the HEAD response *)

\* header values: missing, empty, or one of two tokens
EtagValues == {None, "", "v1", "v2"}

LmValues == {None, "", "t1", "t2"}

CheckedEntries ==
    {CacheEntry(ConfigUrl, e, l, 0, 1) : e \in EtagValues, l \in LmValues}

CheckedResponses ==
    {[kind |-> "neterr", status |-> 0, etag |-> None, lm |-> None]}
    \cup {[kind |-> "response", status |-> st, etag |-> e, lm |-> l] :
             st \in {200, 404, 405, 500}, e \in {None, "v1"}, l \in {None}}
    \cup {[kind |-> "response", status |-> 200, etag |-> e, lm |-> l] :
             e \in EtagValues, l \in LmValues}

InitCheckIfModified ==
    /\ remote = [doc |-> 1, etagOn |-> TRUE, lmOn |-> TRUE]
    /\ files = [f \in Paths |-> Absent]
    /\ clientSpec = 0
    /\ proc = [p \in Procs |-> IdleProc]
    /\ concurrent = FALSE
    /\ \E entry \in CheckedEntries, response \in CheckedResponses :
          pure = [fn |-> "checkIfModified", cachedEntry |-> entry,
                  response |-> response, applied |-> FALSE, result |-> FALSE]

ApplyCheckIfModified ==
    /\ pure.fn = "checkIfModified"
    /\ ~pure.applied
    /\ pure' = [pure EXCEPT !.applied = TRUE,
                            !.result = checkIfModified(pure.response, pure.cachedEntry)]
    /\ UNCHANGED <<remote, files, clientSpec, proc, concurrent>>

CheckIfModifiedSpec == InitCheckIfModified /\ [][ApplyCheckIfModified]_vars

----------------------------------------------------------------------------
(* parser.ts: JSON values *)

\* a JSON value carries its JavaScript type; a string is its characters, an
\* object its own properties as a function from keys to values
Undefined == [t |-> "undefined"]

Null == [t |-> "null"]

Bool(b) == [t |-> "boolean", b |-> b]

Num(n) == [t |-> "number", n |-> n]

Str(chars) == [t |-> "string", chars |-> chars]

Arr(items) == [t |-> "array", items |-> items]

Obj(fields) == [t |-> "object", fields |-> fields]

NoFields == [k \in {} |-> Undefined]

\* typeof x === "object"
TypeofObject(x) == x.t \in {"object", "array", "null"}

\* the value counts as true in a condition
IsTruthy(x) ==
    CASE x.t \in {"undefined", "null"} -> FALSE
      [] x.t = "boolean" -> x.b
      [] x.t = "number" -> x.n # 0
      [] x.t = "string" -> x.chars # <<>>
      [] OTHER -> TRUE

\* the property keys of the elements of an array or a string
IndexKeys == <<"0", "1", "2", "3", "4", "5", "6", "7", "8", "9">>

\* own enumerable properties: what a spread or Object.entries sees
OwnEntries(x) ==
    CASE x.t = "object" -> x.fields
      [] x.t = "array" ->
           [k \in {IndexKeys[i] : i \in 1..Len(x.items)} |->
              x.items[CHOOSE i \in 1..Len(x.items) : IndexKeys[i] = k]]
      [] x.t = "string" ->
           [k \in {IndexKeys[i] : i \in 1..Len(x.chars)} |->
              Str(<<x.chars[CHOOSE i \in 1..Len(x.chars) : IndexKeys[i] = k]>>)]
      [] OTHER -> NoFields

\* x[key]
Get(x, key) ==
    CASE x.t = "array" /\ key = "length" -> Num(Len(x.items))
      [] x.t = "string" /\ key = "length" -> Num(Len(x.chars))
      [] x.t \in {"object", "array", "string"} /\ key \in DOMAIN OwnEntries(x) ->
           OwnEntries(x)[key]
      [] OTHER -> Undefined

\* { ...a, ...b }
Spread(a, b) ==
    [k \in DOMAIN a \cup DOMAIN b |-> IF k \in DOMAIN b THEN b[k] ELSE a[k]]

\* the properties of an object but one
Rest(fields, key) == [k \in DOMAIN fields \ {key} |-> fields[k]]

\* the outcome of a call: a value returned or an error thrown
Returned(v) == [ok |-> TRUE, v |-> v]

Thrown(error) == [ok |-> FALSE, error |-> error]

----------------------------------------------------------------------------
(* parser.ts: strings *)

StartsWith(s, prefix) ==
    Len(s) >= Len(prefix) /\ SubSeq(s, 1, Len(prefix)) = prefix

\* s.split(sep), sep one character
RECURSIVE Split(_, _)
Split(s, sep) ==
    IF \A i \in 1..Len(s) : s[i] # sep THEN <<s>>
    ELSE LET i == CHOOSE j \in 1..Len(s) :
                     s[j] = sep /\ \A k \in 1..(j - 1) : s[k] # sep
         IN <<SubSeq(s, 1, i - 1)>> \o Split(SubSeq(s, i + 1, Len(s)), sep)

\* s.replace(/from/g, to), from two characters
RECURSIVE ReplaceAll(_, _, _)
ReplaceAll(s, from, to) ==
    IF Len(s) < 2 THEN s
    ELSE IF SubSeq(s, 1, 2) = from
         THEN to \o ReplaceAll(SubSeq(s, 3, Len(s)), from, to)
    ELSE <<Head(s)>> \o ReplaceAll(Tail(s), from, to)

\* the property key spelled by the characters
RECURSIVE Text(_)
Text(chars) == IF chars = <<>> THEN "" ELSE Head(chars) \o Text(Tail(chars))

\* segment.replace(/~1/g, "/").replace(/~0/g, "~")
DecodeSegment(segment) ==
    ReplaceAll(ReplaceAll(segment, <<"~", "1">>, <<"/">>), <<"~", "0">>, <<"~">>)

----------------------------------------------------------------------------
(* parser.ts: resolveRef and resolveSchema *)

\* the loop of resolveRef from segment i on
RECURSIVE WalkPath(_, _, _)

\* mutant: a target that is not there is returned as undefined
WalkPath_NoNotFound(current, path, i) ==
    IF i > Len(path) THEN Returned(current)
    ELSE IF current.t \in {"null", "undefined"}
         THEN Thrown("Error: path does not exist")
    ELSE IF ~TypeofObject(current) THEN Thrown("Error: invalid path")
    ELSE WalkPath(Get(current, Text(DecodeSegment(path[i]))), path, i + 1)

WalkPath(current, path, i) ==
    IF i > Len(path)
    THEN IF current.t = "undefined" THEN Thrown("Error: not found")
         ELSE Returned(current)
    ELSE IF current.t \in {"null", "undefined"}
         THEN Thrown("Error: path does not exist")
    ELSE IF ~TypeofObject(current) THEN Thrown("Error: invalid path")
    ELSE WalkPath(Get(current, Text(DecodeSegment(path[i]))), path, i + 1)

resolveRef(spec, ref) ==
    IF ~StartsWith(ref, <<"#", "/">>)
    THEN Thrown("Error: External references not supported")
    ELSE WalkPath(spec, Split(SubSeq(ref, 3, Len(ref)), "/"), 1)

CircularText ==
    <<"C", "i", "r", "c", "u", "l", "a", "r", " ",
      "r", "e", "f", "e", "r", "e", "n", "c", "e", ":", " ">>

ObjectText == <<"o", "b", "j", "e", "c", "t">>

\* mutant: the placeholder does not name the pointer
CircularPlaceholder_Unnamed(ref) ==
    Obj([description |-> Str(CircularText), type |-> Str(ObjectText)])

\* the placeholder that breaks a cycle
CircularPlaceholder(ref) ==
    Obj([description |-> Str(CircularText \o ref), type |-> Str(ObjectText)])

\* the keywords under which resolveSchema descends, in its order
NestedKeywords ==
    <<"properties", "items", "additionalProperties", "allOf", "oneOf", "anyOf", "not">>

RECURSIVE resolveSchema(_, _, _)
RECURSIVE ResolveKeyword(_, _, _, _)
RECURSIVE ResolveNested(_, _, _, _)

\* the outcome of a map (array.map, or the entries of properties): the
\* values returned, or the error thrown by one of the calls
MapOutcome(outcomes) ==
    IF \E k \in DOMAIN outcomes : ~outcomes[k].ok
    THEN outcomes[CHOOSE k \in DOMAIN outcomes : ~outcomes[k].ok]
    ELSE Returned([k \in DOMAIN outcomes |-> outcomes[k].v])

\* the values of a map as an object, as an array
AsObject(r) == IF r.ok THEN Returned(Obj(r.v)) ELSE r

AsArray(r) == IF r.ok THEN Returned(Arr(r.v)) ELSE r

\* the pointers the first n elements refer to
DirectRefs(items, n) ==
    {items[i].fields["$ref"].chars : i \in
       {j \in 1..n : /\ items[j].t = "object"
                     /\ "$ref" \in DOMAIN items[j].fields
                     /\ items[j].fields["$ref"].t = "string"}}

\* mutant: the elements of an array share one visited set instead of each
\* getting a copy
ResolveKeyword_SharedVisited(spec, value, keyword, visited) ==
    CASE keyword = "properties" ->
           LET entries == OwnEntries(value)
           IN AsObject(MapOutcome([k \in DOMAIN entries |->
                                     resolveSchema(spec, entries[k], visited)]))
      [] keyword \in {"items", "allOf", "oneOf", "anyOf"} /\ value.t = "array" ->
           AsArray(MapOutcome([i \in 1..Len(value.items) |->
                                 resolveSchema(spec, value.items[i],
                                               visited \cup DirectRefs(value.items, i - 1))]))
      [] keyword = "items" -> resolveSchema(spec, value, visited)
      [] keyword = "additionalProperties" ->
           IF TypeofObject(value) THEN resolveSchema(spec, value, visited)
           ELSE Returned(value)
      [] keyword \in {"allOf", "oneOf", "anyOf"} ->
           Thrown("TypeError: map is not a function")
      [] keyword = "not" -> resolveSchema(spec, value, visited)

\* the new value of result[keyword], result[keyword] being truthy
ResolveKeyword(spec, value, keyword, visited) ==
    CASE keyword = "properties" ->
           LET entries == OwnEntries(value)
           IN AsObject(MapOutcome([k \in DOMAIN entries |->
                                     resolveSchema(spec, entries[k], visited)]))
      [] keyword = "items" ->
           IF value.t = "array"
           THEN AsArray(MapOutcome([i \in 1..Len(value.items) |->
                                      resolveSchema(spec, value.items[i], visited)]))
           ELSE resolveSchema(spec, value, visited)
      [] keyword = "additionalProperties" ->
           IF TypeofObject(value) THEN resolveSchema(spec, value, visited)
           ELSE Returned(value)
      [] keyword \in {"allOf", "oneOf", "anyOf"} ->
           IF value.t = "array"
           THEN AsArray(MapOutcome([i \in 1..Len(value.items) |->
                                      resolveSchema(spec, value.items[i], visited)]))
           ELSE Thrown("TypeError: map is not a function")
      [] keyword = "not" -> resolveSchema(spec, value, visited)

\* the part of resolveSchema after the copy, from the k-th keyword on
ResolveNested(spec, result, k, visited) ==
    IF k > Len(NestedKeywords) THEN Returned(Obj(result))
    ELSE LET keyword == NestedKeywords[k]
             value == IF keyword \in DOMAIN result THEN result[keyword] ELSE Undefined
         IN IF ~IsTruthy(value) THEN ResolveNested(spec, result, k + 1, visited)
            ELSE LET r == ResolveKeyword(spec, value, keyword, visited)
                 IN IF ~r.ok THEN r
                    ELSE ResolveNested(spec, [result EXCEPT ![keyword] = r.v],
                                       k + 1, visited)

\* mutant: a pointer met again on its chain is left as it is
resolveSchema_RevisitUnresolved(spec, schema, visited) ==
    IF ~IsTruthy(schema) \/ ~TypeofObject(schema) THEN Returned(schema)
    ELSE LET ref == Get(schema, "$ref") IN
    IF IsTruthy(ref)
    THEN IF ref.t = "string" /\ ref.chars \in visited
         THEN Returned(schema)
         ELSE LET resolved == IF ref.t = "string" THEN resolveRef(spec, ref.chars)
                              ELSE Thrown("TypeError: startsWith is not a function")
              IN IF ~resolved.ok THEN Returned(schema)
                 ELSE LET merged == Obj(Spread(OwnEntries(resolved.v),
                                               Rest(schema.fields, "$ref")))
                          r == resolveSchema(spec, merged, visited \cup {ref.chars})
                      IN IF r.ok THEN r ELSE Returned(schema)
    ELSE ResolveNested(spec, OwnEntries(schema), 1, visited)

resolveSchema(spec, schema, visited) ==
    IF ~IsTruthy(schema) \/ ~TypeofObject(schema) THEN Returned(schema)
    ELSE LET ref == Get(schema, "$ref") IN
    IF IsTruthy(ref)
    THEN IF ref.t = "string" /\ ref.chars \in visited
         THEN Returned(CircularPlaceholder(ref.chars))
         ELSE LET resolved == IF ref.t = "string" THEN resolveRef(spec, ref.chars)
                              ELSE Thrown("TypeError: startsWith is not a function")
              IN IF ~resolved.ok THEN Returned(schema)
                 ELSE LET merged == Obj(Spread(OwnEntries(resolved.v),
                                               Rest(schema.fields, "$ref")))
                          r == resolveSchema(spec, merged, visited \cup {ref.chars})
                      IN IF r.ok THEN r ELSE Returned(schema)
    ELSE ResolveNested(spec, OwnEntries(schema), 1, visited)

----------------------------------------------------------------------------
(* resolveSchema as a function of the document and the fragment *)

StringText == <<"s", "t", "r", "i", "n", "g">>

\* "#/s/<name>"
SchemaRef(name) == Str(<<"#", "/", "s", "/">> \o name)

RefTo(name) == Obj("$ref" :> SchemaRef(name))

\* schemas of the document: Node refers to itself through a property, Ping
\* and Pong to each other, Pet to Tag; Bad carries an allOf that is no array;
\* Ring1, Ring2 and Ring3 refer to each other in a cycle of three, through
\* items, through allOf and directly
Schemas ==
    [Node |-> Obj([type |-> Str(ObjectText),
                   properties |-> Obj([next |-> RefTo(<<"N", "o", "d", "e">>)])]),
     Ping |-> RefTo(<<"P", "o", "n", "g">>),
     Pong |-> Obj(("$ref" :> SchemaRef(<<"P", "i", "n", "g">>))
                  @@ [description |-> Str(<<"p">>)]),
     Pet |-> Obj([type |-> Str(ObjectText),
                  properties |-> Obj([tag |-> RefTo(<<"T", "a", "g">>)]),
                  description |-> Str(<<"p", "e", "t">>)]),
     Tag |-> Obj([type |-> Str(StringText)]),
     Bad |-> Obj([allOf |-> Obj([type |-> Str(StringText)])]),
     Nil |-> Null,
     Ring1 |-> Obj([items |-> RefTo(<<"R", "i", "n", "g", "2">>)]),
     Ring2 |-> Obj([allOf |-> Arr(<<RefTo(<<"R", "i", "n", "g", "3">>)>>)]),
     Ring3 |-> Obj(("$ref" :> SchemaRef(<<"R", "i", "n", "g", "1">>))
                   @@ [description |-> Str(<<"r">>)])]
    @@ ("a/b" :> Obj([type |-> Str(StringText)]))

\* the document that holds the schemas
FullDocument == Obj([openapi |-> Str(<<"3">>), s |-> Obj(Schemas)])

Documents ==
    {FullDocument,
     Obj([openapi |-> Str(<<"3">>), s |-> Str(<<"x">>)]),
     Obj([swagger |-> Str(<<"2">>)])}

\* fragments without nesting
BaseFragments ==
    {RefTo(<<"N", "o", "d", "e">>), RefTo(<<"P", "i", "n", "g">>),
     RefTo(<<"P", "e", "t">>), RefTo(<<"B", "a", "d">>), RefTo(<<"N", "i", "l">>),
     RefTo(<<"a", "~", "1", "b">>), RefTo(<<"G", "o", "n", "e">>),
     RefTo(<<"T", "a", "g", "/", "t", "y", "p", "e", "/", "x">>),
     RefTo(<<"R", "i", "n", "g", "1">>), Schemas.Node,
     Obj("$ref" :> Str(<<"x", ".", "j", "s", "#", "/", "s">>)),
     Obj("$ref" :> Str(<<"#", "/">>)),
     Obj("$ref" :> Num(7)),
     Obj(("$ref" :> SchemaRef(<<"P", "e", "t">>)) @@ [description |-> Str(<<"m", "y">>)]),
     Obj([type |-> Str(StringText)]),
     Str(<<"x">>), Null}

\* a fragment that holds f under one keyword, well formed or not
Nestings(f) ==
    {f,
     Obj([properties |-> Obj([a |-> f, b |-> RefTo(<<"T", "a", "g">>)])]),
     Obj([properties |-> f]),
     Obj([items |-> f]),
     Obj([items |-> Arr(<<f, f>>)]),
     Obj([additionalProperties |-> f]),
     Obj([allOf |-> Arr(<<f>>)]),
     Obj([oneOf |-> Arr(<<f, RefTo(<<"T", "a", "g">>)>>)]),
     Obj([anyOf |-> Arr(<<f>>)]),
     Obj([not |-> f]),
     Obj([allOf |-> f]),
     Obj([oneOf |-> f]),
     Obj([anyOf |-> f]),
     Obj(("$ref" :> SchemaRef(<<"T", "a", "g">>)) @@ [allOf |-> f]),
     Obj([properties |-> Obj([a |-> Obj([anyOf |-> f])])]),
     Obj([oneOf |-> Arr(<<RefTo(<<"T", "a", "g">>), f>>)]),
     Obj(("$ref" :> SchemaRef(<<"P", "e", "t">>))
         @@ [properties |-> Obj([extra |-> f]), description |-> Str(<<"m", "y">>)]),
     Obj([properties |-> Obj([a |-> f, b |-> f]), items |-> Arr(<<f, f>>),
          additionalProperties |-> f, allOf |-> Arr(<<f, f>>),
          oneOf |-> Arr(<<f, f>>), anyOf |-> Arr(<<f, f>>), not |-> f])}

Fragments == UNION {Nestings(f) : f \in BaseFragments}

InitResolveSchema ==
    /\ remote = [doc |-> 1, etagOn |-> TRUE, lmOn |-> TRUE]
    /\ files = [f \in Paths |-> Absent]
    /\ clientSpec = 0
    /\ proc = [p \in Procs |-> IdleProc]
    /\ concurrent = FALSE
    /\ \E document \in Documents, fragment \in Fragments :
          pure = [fn |-> "resolveSchema", spec |-> document, schema |-> fragment,
                  applied |-> FALSE, result |-> Returned(Undefined)]

ApplyResolveSchema ==
    /\ pure.fn = "resolveSchema"
    /\ ~pure.applied
    /\ pure' = [pure EXCEPT !.applied = TRUE,
                            !.result = resolveSchema(pure.spec, pure.schema, {})]
    /\ UNCHANGED <<remote, files, clientSpec, proc, concurrent>>

ResolverSpec == InitResolveSchema /\ [][ApplyResolveSchema]_vars

----------------------------------------------------------------------------
(* parser.ts: resolveSchema on objects that have an identity *)

\* Objects and arrays live in a heap, a function from addresses to nodes; a
\* node is an object or an array whose members are scalars or pointers to
\* other nodes. An address is the path of keys from a root: "spec" for the
\* document, "schema" for the fragment, "new" for what a call creates.
Ptr(a) == [t |-> "pointer", a |-> a]

\* a member of a node: the scalar, or the pointer to the node at addr
Link(v, addr) == IF v.t \in {"object", "array"} THEN Ptr(addr) ELSE v

\* the value at the path of keys below v
RECURSIVE ValueAt(_, _)
ValueAt(v, path) ==
    IF path = <<>> THEN v ELSE ValueAt(Get(v, Head(path)), Tail(path))

\* the addresses of the objects and arrays of v, v being at address a
RECURSIVE Addresses(_, _)
Addresses(v, a) ==
    IF v.t \in {"object", "array"}
    THEN {a} \cup UNION {Addresses(OwnEntries(v)[k], Append(a, k)) :
                           k \in DOMAIN OwnEntries(v)}
    ELSE {}

\* the node of the object or array v at address a
NodeFor(v, a) ==
    IF v.t = "object"
    THEN Obj([k \in DOMAIN v.fields |-> Link(v.fields[k], Append(a, k))])
    ELSE Arr([i \in 1..Len(v.items) |-> Link(v.items[i], Append(a, IndexKeys[i]))])

\* the heap that holds v under the root
HeapOf(root, v) ==
    [a \in Addresses(v, <<root>>) |-> NodeFor(ValueAt(v, Tail(a)), a)]

\* the value a member stands for
RECURSIVE Load(_, _)
Load(h, x) ==
    IF x.t # "pointer" THEN x
    ELSE IF h[x.a].t = "object"
         THEN Obj([k \in DOMAIN h[x.a].fields |-> Load(h, h[x.a].fields[k])])
         ELSE Arr([i \in 1..Len(h[x.a].items) |-> Load(h, h[x.a].items[i])])

\* what x[key], a spread or Object.entries look at
NodeOf(h, x) == IF x.t = "pointer" THEN h[x.a] ELSE x

\* the outcome of a call, with the heap it leaves
ReturnedH(h, v) == [ok |-> TRUE, v |-> v, h |-> h]

ThrownH(h, error) == [ok |-> FALSE, error |-> error, h |-> h]

\* the loop of resolveRef from segment i on; it reads only
RECURSIVE WalkPathH(_, _, _, _)
WalkPathH(h, current, path, i) ==
    IF i > Len(path)
    THEN IF current.t = "undefined" THEN Thrown("Error: not found")
         ELSE Returned(current)
    ELSE IF current.t \in {"null", "undefined"}
         THEN Thrown("Error: path does not exist")
    ELSE IF current.t # "pointer" THEN Thrown("Error: invalid path")
    ELSE WalkPathH(h, Get(h[current.a], Text(DecodeSegment(path[i]))), path, i + 1)

resolveRefH(h, ref) ==
    IF ~StartsWith(ref, <<"#", "/">>)
    THEN Thrown("Error: External references not supported")
    ELSE WalkPathH(h, Ptr(<<"spec">>), Split(SubSeq(ref, 3, Len(ref)), "/"), 1)

CopyObject_InPlace(h, x, a) == [h |-> h, a |-> x.a]

\* { ...schema }: a new object at address a with the members of x
CopyObject(h, x, a) == [h |-> h @@ (a :> Obj(OwnEntries(h[x.a]))), a |-> a]

\* result[key] = v, result being the object at address a
WriteField(h, a, key, v) ==
    [h EXCEPT ![a] = Obj(Spread(OwnEntries(h[a]), key :> v))]

RECURSIVE resolveSchemaH(_, _, _, _)
RECURSIVE MapH(_, _, _, _, _, _)
RECURSIVE ResolveKeywordH(_, _, _, _, _)
RECURSIVE ResolveNestedH(_, _, _, _, _)

\* a map over the entries not yet visited: each call works on the heap the
\* previous one left; done holds the values returned so far
MapH(h, entries, keys, done, visited, cp) ==
    IF keys = {} THEN ReturnedH(h, done)
    ELSE LET k == CHOOSE key \in keys : TRUE
             r == resolveSchemaH(h, entries[k], visited, Append(cp, k))
         IN IF ~r.ok THEN r
            ELSE MapH(r.h, entries, keys \ {k}, done @@ (k :> r.v), visited, cp)

\* the new value of result[keyword], result[keyword] being truthy; the
\* object or array a map builds is new, at address cp
ResolveKeywordH(h, value, keyword, visited, cp) ==
    LET node == NodeOf(h, value)
        isArray == node.t = "array"
        mapped == MapH(h, OwnEntries(node), DOMAIN OwnEntries(node), NoFields, visited, cp)
        asArray == IF ~mapped.ok THEN mapped
                   ELSE ReturnedH(mapped.h @@ (cp :> Arr([i \in 1..Len(node.items) |->
                                                           mapped.v[IndexKeys[i]]])),
                                  Ptr(cp))
    IN CASE keyword = "properties" ->
              IF ~mapped.ok THEN mapped
              ELSE ReturnedH(mapped.h @@ (cp :> Obj(mapped.v)), Ptr(cp))
         [] keyword = "items" ->
              IF isArray THEN asArray ELSE resolveSchemaH(h, value, visited, cp)
         [] keyword = "additionalProperties" ->
              IF value.t = "pointer" THEN resolveSchemaH(h, value, visited, cp)
              ELSE ReturnedH(h, value)
         [] keyword \in {"allOf", "oneOf", "anyOf"} ->
              IF isArray THEN asArray
              ELSE ThrownH(h, "TypeError: map is not a function")
         [] keyword = "not" -> resolveSchemaH(h, value, visited, cp)

\* the part of resolveSchema after the copy, from the k-th keyword on;
\* result is the object at address a
ResolveNestedH(h, a, k, visited, cp) ==
    IF k > Len(NestedKeywords) THEN ReturnedH(h, Ptr(a))
    ELSE LET keyword == NestedKeywords[k]
             value == Get(h[a], keyword)
         IN IF ~IsTruthy(value) THEN ResolveNestedH(h, a, k + 1, visited, cp)
            ELSE LET r == ResolveKeywordH(h, value, keyword, visited, Append(cp, keyword))
                 IN IF ~r.ok THEN r
                    ELSE ResolveNestedH(WriteField(r.h, a, keyword, r.v), a, k + 1,
                                        visited, cp)

\* resolveSchema; cp names the call, and every object the call creates has
\* an address that starts with cp
resolveSchemaH(h, x, visited, cp) ==
    IF ~IsTruthy(x) \/ x.t # "pointer" THEN ReturnedH(h, x)
    ELSE LET ref == Get(h[x.a], "$ref") IN
    IF IsTruthy(ref)
    THEN IF ref.t = "string" /\ ref.chars \in visited
         THEN ReturnedH(h @@ (Append(cp, "placeholder") :> CircularPlaceholder(ref.chars)),
                        Ptr(Append(cp, "placeholder")))
         ELSE LET resolved == IF ref.t = "string" THEN resolveRefH(h, ref.chars)
                              ELSE Thrown("TypeError: startsWith is not a function")
              IN IF ~resolved.ok THEN ReturnedH(h, x)
                 ELSE LET merged == Obj(Spread(OwnEntries(NodeOf(h, resolved.v)),
                                               Rest(OwnEntries(h[x.a]), "$ref")))
                          r == resolveSchemaH(h @@ (Append(cp, "merged") :> merged),
                                              Ptr(Append(cp, "merged")),
                                              visited \cup {ref.chars}, Append(cp, "m"))
                      IN IF r.ok THEN r ELSE ReturnedH(r.h, x)
    ELSE LET copy == CopyObject(h, x, Append(cp, "result"))
         IN ResolveNestedH(copy.h, copy.a, 1, visited, cp)

----------------------------------------------------------------------------
(* resolveSchema on the heap, called twice on the same arguments *)

NoHeap == [a \in {} |-> Undefined]

InitResolveHeap ==
    /\ remote = [doc |-> 1, etagOn |-> TRUE, lmOn |-> TRUE]
    /\ files = [f \in Paths |-> Absent]
    /\ clientSpec = 0
    /\ proc = [p \in Procs |-> IdleProc]
    /\ concurrent = FALSE
    /\ \E document \in Documents, fragment \in Fragments :
          pure = [fn |-> "resolveHeap", spec |-> document, schema |-> fragment,
                  heap |-> HeapOf("spec", document) @@ HeapOf("schema", fragment),
                  applied |-> FALSE,
                  first |-> ReturnedH(NoHeap, Undefined),
                  second |-> ReturnedH(NoHeap, Undefined)]

\* resolveSchema(spec, schema), and once more on what the first call left
ApplyResolveHeap ==
    /\ pure.fn = "resolveHeap"
    /\ ~pure.applied
    /\ \E first \in {resolveSchemaH(pure.heap, Link(pure.schema, <<"schema">>),
                                    {}, <<"new">>)} :
          pure' = [pure EXCEPT
                     !.applied = TRUE,
                     !.first = first,
                     !.second = resolveSchemaH(first.h, Link(pure.schema, <<"schema">>),
                                               {}, <<"again">>)]
    /\ UNCHANGED <<remote, files, clientSpec, proc, concurrent>>

HeapResolverSpec == InitResolveHeap /\ [][ApplyResolveHeap]_vars

----------------------------------------------------------------------------
(* parser.ts: detectVersion and normalizeSpec; SwaggerClient.getApiDetails *)

UpperLetters ==
    <<"A", "B", "C", "D", "E", "F", "G", "H", "I", "J", "K", "L", "M",
      "N", "O", "P", "Q", "R", "S", "T", "U", "V", "W", "X", "Y", "Z">>

LowerLetters ==
    <<"a", "b", "c", "d", "e", "f", "g", "h", "i", "j", "k", "l", "m",
      "n", "o", "p", "q", "r", "s", "t", "u", "v", "w", "x", "y", "z">>

\* s.toLowerCase(), s.toUpperCase()
ToLowerCase(chars) ==
    [i \in 1..Len(chars) |->
       IF \E j \in 1..Len(UpperLetters) : UpperLetters[j] = chars[i]
       THEN LowerLetters[CHOOSE j \in 1..Len(UpperLetters) : UpperLetters[j] = chars[i]]
       ELSE chars[i]]

ToUpperCase(chars) ==
    [i \in 1..Len(chars) |->
       IF \E j \in 1..Len(LowerLetters) : LowerLetters[j] = chars[i]
       THEN UpperLetters[CHOOSE j \in 1..Len(LowerLetters) : LowerLetters[j] = chars[i]]
       ELSE chars[i]]

detectVersion(spec) ==
    IF spec.t \notin {"object", "array"}
    THEN Thrown("TypeError: cannot use in operator")
    ELSE IF /\ "swagger" \in DOMAIN OwnEntries(spec)
            /\ Get(spec, "swagger") = Str(<<"2", ".", "0">>)
         THEN Returned("2.0")
    ELSE IF "openapi" \in DOMAIN OwnEntries(spec) THEN Returned("3.0+")
    ELSE Thrown("Error: Unknown or unsupported OpenAPI/Swagger version")

\* normalizeSpec, of which getApiDetails uses the paths: it reads info.title
\* on the way
normalizeSpec(spec) ==
    LET version == detectVersion(spec) IN
    IF ~version.ok THEN version
    ELSE IF Get(spec, "info").t \in {"undefined", "null"}
         THEN Thrown("TypeError: cannot read properties of undefined")
    ELSE Returned([version |-> version.v, paths |-> Get(spec, "paths"),
                   info |-> Get(spec, "info")])

TypeErrorOfNullish == Thrown("TypeError: cannot read properties of undefined")

\* parameters.map: a parameter whose schema is a reference gets the schema
\* resolved, any other parameter is passed on as it is
ResolveParameter(spec, param) ==
    IF param.t \in {"undefined", "null"} THEN TypeErrorOfNullish
    ELSE LET schema == Get(param, "schema") IN
         IF IsTruthy(schema) /\ IsTruthy(Get(schema, "$ref"))
         THEN LET r == resolveSchema(spec, schema, {})
              IN IF r.ok
                 THEN Returned(Obj(Spread(OwnEntries(param), [schema |-> r.v])))
                 ELSE r
         ELSE Returned(param)

\* one media type of a content object, its schema resolved
ResolveMediaType(spec, mediaTypeObj) ==
    IF mediaTypeObj.t \in {"undefined", "null"} THEN TypeErrorOfNullish
    ELSE IF IsTruthy(Get(mediaTypeObj, "schema"))
         THEN LET r == resolveSchema(spec, Get(mediaTypeObj, "schema"), {})
              IN IF r.ok
                 THEN Returned(Obj(Spread(OwnEntries(mediaTypeObj), [schema |-> r.v])))
                 ELSE r
    ELSE Returned(mediaTypeObj)

\* the entries of a content object, the schema of each media type resolved
ResolveContent(spec, content) ==
    LET entries == OwnEntries(content)
    IN AsObject(MapOutcome([k \in DOMAIN entries |->
                              ResolveMediaType(spec, entries[k])]))

\* the elements parameters.push(...x) appends
SpreadElements(x) ==
    CASE ~IsTruthy(x) -> Returned(<<>>)
      [] x.t = "array" -> Returned(x.items)
      [] x.t = "string" -> Returned([i \in 1..Len(x.chars) |-> Str(<<x.chars[i]>>)])
      [] OTHER -> Thrown("TypeError: not iterable")

ResolveRequestBody(spec, operation) ==
    IF ~IsTruthy(Get(operation, "requestBody")) THEN Returned(Null)
    ELSE LET requestBody == OwnEntries(Get(operation, "requestBody"))
             content == IF "content" \in DOMAIN requestBody
                        THEN requestBody.content ELSE Undefined
         IN IF ~IsTruthy(content) THEN Returned(Obj(requestBody))
            ELSE LET r == ResolveContent(spec, content)
                 IN IF r.ok THEN Returned(Obj([requestBody EXCEPT !.content = r.v]))
                    ELSE r

\* one response: the schemas of its content (3.0) and its schema (2.0)
ResolveResponse(spec, response) ==
    LET copy == OwnEntries(response)
        content == IF "content" \in DOMAIN copy THEN copy.content ELSE Undefined
        withContent ==
            IF ~IsTruthy(content) THEN Returned(copy)
            ELSE LET r == ResolveContent(spec, content)
                 IN IF r.ok THEN Returned([copy EXCEPT !.content = r.v]) ELSE r
    IN IF ~withContent.ok THEN withContent
       ELSE LET schema == IF "schema" \in DOMAIN withContent.v
                          THEN withContent.v.schema ELSE Undefined
            IN IF ~IsTruthy(schema) THEN Returned(Obj(withContent.v))
               ELSE LET r == resolveSchema(spec, schema, {})
                    IN IF r.ok
                       THEN Returned(Obj([withContent.v EXCEPT !.schema = r.v]))
                       ELSE r

ResolveResponses(spec, operation) ==
    LET responses == Get(operation, "responses") IN
    IF responses.t \in {"undefined", "null"}
    THEN Thrown("TypeError: cannot convert undefined or null to object")
    ELSE LET entries == OwnEntries(responses)
         IN AsObject(MapOutcome([k \in DOMAIN entries |->
                                   ResolveResponse(spec, entries[k])]))

\* the object getApiDetails returns
ApiDetailsResponse(path, method, operation, parameters, requestBody, responses) ==
    IF ~parameters.ok THEN parameters
    ELSE IF ~requestBody.ok THEN requestBody
    ELSE IF ~responses.ok THEN responses
    ELSE Returned(Obj([path |-> Str(path),
                       method |-> Str(ToUpperCase(method)),
                       operationId |-> Get(operation, "operationId"),
                       summary |-> Get(operation, "summary"),
                       description |-> Get(operation, "description"),
                       tags |-> Get(operation, "tags"),
                       parameters |-> parameters.v,
                       requestBody |-> requestBody.v,
                       responses |-> responses.v,
                       security |-> Get(operation, "security")]))

\* the parameters of the path and of the operation, in this order, resolved
ResolveParameters(spec, pathLevel, operationLevel) ==
    IF ~pathLevel.ok THEN pathLevel
    ELSE IF ~operationLevel.ok THEN operationLevel
    ELSE AsArray(MapOutcome([i \in 1..(Len(pathLevel.v) + Len(operationLevel.v)) |->
                               ResolveParameter(spec, (pathLevel.v \o operationLevel.v)[i])]))

\* getApiDetails from the operation on
OperationDetails(spec, pathItem, operation, path, method) ==
    IF ~IsTruthy(operation) THEN Returned(Null)
    ELSE ApiDetailsResponse(path, method, operation,
                            ResolveParameters(spec,
                                              SpreadElements(Get(pathItem, "parameters")),
                                              SpreadElements(Get(operation, "parameters"))),
                            ResolveRequestBody(spec, operation),
                            ResolveResponses(spec, operation))

\* getApiDetails from the path item on
PathItemDetails(spec, pathItem, path, method) ==
    IF ~IsTruthy(pathItem) THEN Returned(Null)
    ELSE OperationDetails(spec, pathItem, Get(pathItem, Text(ToLowerCase(method))),
                          path, method)

\* getApiDetails once the document is there; path and method are strings
getApiDetails(spec, path, method) ==
    LET normalized == normalizeSpec(spec) IN
    IF ~normalized.ok THEN normalized
    ELSE IF normalized.v.paths.t \in {"undefined", "null"} THEN TypeErrorOfNullish
    ELSE PathItemDetails(spec, Get(normalized.v.paths, Text(path)), path, method)

----------------------------------------------------------------------------
(* getApiDetails as a function of the document, the path and the method *)

JsonMedia == "application/json"

ArrayText == <<"a", "r", "r", "a", "y">>

StringSchema == Obj([type |-> Str(StringText)])

\* "#/<section>/<name>"
ComponentRef(section, name) == Obj("$ref" :> Str(<<"#", "/", section, "/">> \o name))

ArrayOf(schema) == Obj([type |-> Str(ArrayText), items |-> schema])

Param(name, schema) ==
    Obj([name |-> Str(name), in |-> Str(<<"q">>), schema |-> schema])

\* the parameters of the operation: none, an inline schema, a schema that
\* is a reference, a schema holding a reference below its top level, a
\* reference to a components parameter
ParameterLists ==
    {Undefined,
     Arr(<<Param(<<"i", "d">>, StringSchema)>>),
     Arr(<<Param(<<"p", "e", "t">>, RefTo(<<"P", "e", "t">>))>>),
     Arr(<<Param(<<"i", "d", "s">>, ArrayOf(RefTo(<<"T", "a", "g">>)))>>),
     Arr(<<ComponentRef("p", <<"L", "i", "m", "i", "t">>)>>),
     Arr(<<Param(<<"p", "e", "t">>, RefTo(<<"N", "o", "d", "e">>)),
           Param(<<"i", "d">>, StringSchema)>>)}

Content(schema) == Obj(JsonMedia :> Obj([schema |-> schema]))

\* the request body: none, a content whose schema is or holds a reference, a
\* media type without schema, a reference to a components request body
RequestBodies ==
    {Undefined,
     Obj([content |-> Content(RefTo(<<"P", "e", "t">>))]),
     Obj([content |-> Content(ArrayOf(RefTo(<<"T", "a", "g">>))), required |-> Bool(TRUE)]),
     Obj([content |-> Obj(JsonMedia :> Obj([example |-> Str(<<"e">>)]))]),
     ComponentRef("b", <<"P", "e", "t", "B", "o", "d", "y">>)}

Described(fields) == Obj([description |-> Str(<<"o", "k">>)] @@ fields)

\* the responses: without schema, with content (3.0), with schema (2.0),
\* with a header schema, a reference to a components response
ResponseMaps ==
    {Obj("200" :> Described(NoFields)),
     Obj("200" :> Described([content |-> Content(RefTo(<<"P", "e", "t">>))])),
     Obj("200" :> Described([schema |-> ArrayOf(RefTo(<<"P", "e", "t">>))])),
     Obj(("200" :> Described([content |-> Content(RefTo(<<"N", "o", "d", "e">>))]))
         @@ ("404" :> Described([content |-> Content(RefTo(<<"T", "a", "g">>))]))),
     Obj("200" :> Described([headers |->
                    Obj([X |-> Obj([schema |-> RefTo(<<"T", "a", "g">>)])])])),
     Obj(("200" :> Described(NoFields))
         @@ ("404" :> ComponentRef("r", <<"N", "o", "t", "F", "o", "u", "n", "d">>)))}

PetsPath == <<"/", "p", "e", "t", "s">>

\* a 3.0 document with one path and one operation; every pointer in it is
\* internal and has its target in the document
Optional(key, value) == IF value = Undefined THEN NoFields ELSE key :> value

ApiDocument(pathParameters, parameters, requestBody, responses) ==
    LET operation == Obj([operationId |-> Str(<<"l", "i", "s", "t">>),
                          responses |-> responses]
                         @@ Optional("parameters", parameters)
                         @@ Optional("requestBody", requestBody))
    IN Obj([openapi |-> Str(<<"3", ".", "0", ".", "0">>),
            info |-> Obj([title |-> Str(<<"t">>)]),
            paths |-> Obj(Text(PetsPath) :>
                            Obj([get |-> operation]
                                @@ Optional("parameters", pathParameters))),
            s |-> Obj(Schemas),
            p |-> Obj([Limit |-> Param(<<"l", "i", "m", "i", "t">>, StringSchema)]),
            b |-> Obj([PetBody |-> Obj([content |-> Content(RefTo(<<"P", "e", "t">>))])]),
            r |-> Obj([NotFound |-> Described(NoFields)])])

ApiDocuments ==
    {ApiDocument(pp, ps, body, rs) :
       pp \in {Undefined, Arr(<<Param(<<"v">>, RefTo(<<"T", "a", "g">>))>>)},
       ps \in ParameterLists, body \in RequestBodies, rs \in ResponseMaps}

Methods == {<<"G", "E", "T">>, <<"g", "e", "t">>, <<"P", "O", "S", "T">>}

InitGetApiDetails ==
    /\ remote = [doc |-> 1, etagOn |-> TRUE, lmOn |-> TRUE]
    /\ files = [f \in Paths |-> Absent]
    /\ clientSpec = 0
    /\ proc = [p \in Procs |-> IdleProc]
    /\ concurrent = FALSE
    /\ \E document \in ApiDocuments, method \in Methods :
          pure = [fn |-> "getApiDetails", spec |-> document, path |-> PetsPath,
                  method |-> method, applied |-> FALSE,
                  result |-> Returned(Undefined)]

ApplyGetApiDetails ==
    /\ pure.fn = "getApiDetails"
    /\ ~pure.applied
    /\ pure' = [pure EXCEPT !.applied = TRUE,
                            !.result = getApiDetails(pure.spec, pure.path, pure.method)]
    /\ UNCHANGED <<remote, files, clientSpec, proc, concurrent>>

ApiDetailsSpec == InitGetApiDetails /\ [][ApplyGetApiDetails]_vars

----------------------------------------------------------------------------
(* index.ts: performLogin and buildAxiosConfig *)

\* the characters of codes 32 to 126, in the order of their codes (the grave
\* accent, code 96, by its name)
AsciiPrintable ==
    <<
      " ", "!", "\"", "#", "$", "%", "&", "'", "(", ")", "*", "+", ",",
      "-", ".", "/", "0", "1", "2", "3", "4", "5", "6", "7", "8", "9", ":",
      ";", "<", "=", ">", "?", "@", "A", "B", "C", "D", "E", "F", "G", "H",
      "I", "J", "K", "L", "M", "N", "O", "P", "Q", "R", "S", "T", "U", "V",
      "W", "X", "Y", "Z", "[", "\\", "]", "^", "_", "grave", "a", "b", "c",
      "d", "e", "f", "g", "h", "i", "j", "k", "l", "m", "n", "o", "p", "q",
      "r", "s", "t", "u", "v", "w", "x", "y", "z", "{", "|", "}", "~" >>

\* the UTF-8 bytes of a string of such characters
Bytes(chars) ==
    [i \in 1..Len(chars) |->
       31 + CHOOSE j \in 1..Len(AsciiPrintable) : AsciiPrintable[j] = chars[i]]

Base64Alphabet ==
    <<
      "A", "B", "C", "D", "E", "F", "G", "H", "I", "J", "K", "L", "M", "N",
      "O", "P", "Q", "R", "S", "T", "U", "V", "W", "X", "Y", "Z", "a", "b",
      "c", "d", "e", "f", "g", "h", "i", "j", "k", "l", "m", "n", "o", "p",
      "q", "r", "s", "t", "u", "v", "w", "x", "y", "z", "0", "1", "2", "3",
      "4", "5", "6", "7", "8", "9", "+", "/" >>

\* Buffer.from(s).toString("base64"), on the bytes
RECURSIVE Base64(_)
Base64(bytes) ==
    IF bytes = <<>> THEN <<>>
    ELSE LET n == Len(bytes)
             v == bytes[1] * 65536
                  + (IF n >= 2 THEN bytes[2] ELSE 0) * 256
                  + (IF n >= 3 THEN bytes[3] ELSE 0)
         IN <<Base64Alphabet[(v \div 262144) + 1],
              Base64Alphabet[((v \div 4096) % 64) + 1],
              IF n >= 2 THEN Base64Alphabet[((v \div 64) % 64) + 1] ELSE "=",
              IF n >= 3 THEN Base64Alphabet[(v % 64) + 1] ELSE "=">>
            \o Base64(SubSeq(bytes, 4, n))

\* parts.join(sep)
RECURSIVE Join(_, _)
Join(parts, sep) ==
    IF parts = <<>> THEN <<>>
    ELSE IF Len(parts) = 1 THEN parts[1]
    ELSE parts[1] \o sep \o Join(Tail(parts), sep)

\* JSON.parse, for the texts of a few values; any other text is a SyntaxError
JsonParse(chars) ==
    CASE chars = <<"{", "}">> -> Returned(Obj(NoFields))
      [] chars = <<"[", "]">> -> Returned(Arr(<<>>))
      [] chars = <<"n", "u", "l", "l">> -> Returned(Null)
      [] chars = <<"1">> -> Returned(Num(1))
      [] OTHER -> Thrown("SyntaxError")

BodyMethods == {<<"P", "O", "S", "T">>, <<"P", "U", "T">>, <<"P", "A", "T", "C", "H">>}

\* mutant: the login request carries the Authorization header of the others
LoginRequest_Authorized(config) ==
    Returned([kind |-> "login", method |-> <<"P", "O", "S", "T">>,
              url |-> Text(config.loginUrl.chars),
              headers |-> IF IsTruthy(config.token)
                          THEN "Authorization" :> (<<"B", "e", "a", "r", "e", "r", " ">>
                                                   \o config.token.chars)
                          ELSE NoFields,
              data |-> Undefined])

\* the request performLogin sends, or the error of JSON.parse that makes it
\* return before sending one
LoginRequest(config) ==
    LET method == ToUpperCase(IF IsTruthy(config.loginMethod)
                              THEN config.loginMethod.chars
                              ELSE <<"P", "O", "S", "T">>)
        bare == [kind |-> "login", method |-> method, url |-> Text(config.loginUrl.chars),
                 headers |-> NoFields, data |-> Undefined]
    IN IF IsTruthy(config.loginBody) /\ method \in BodyMethods
       THEN LET data == JsonParse(config.loginBody.chars)
            IN IF ~data.ok THEN data
               ELSE Returned([bare EXCEPT
                                !.data = data.v,
                                !.headers = "Content-Type" :> JsonMedia])
       ELSE Returned(bare)

\* the cookies performLogin takes from the response to its request; axios
\* throws unless the status is 2xx, and performLogin catches
LoginCookies(response) ==
    IF response.kind = "neterr" \/ response.status < 200 \/ response.status >= 300
    THEN Undefined
    ELSE IF response.setCookie # <<>>
         THEN Str(Join([i \in 1..Len(response.setCookie) |->
                          Split(response.setCookie[i], ";")[1]],
                       <<";", " ">>))
    ELSE Undefined

\* performLogin: the requests it sends (none or one) and what it returns
performLogin(config, response) ==
    IF ~IsTruthy(config.loginUrl) THEN [sent |-> <<>>, cookies |-> Undefined]
    ELSE LET request == LoginRequest(config)
         IN IF ~request.ok THEN [sent |-> <<>>, cookies |-> Undefined]
            ELSE [sent |-> <<request.v>>, cookies |-> LoginCookies(response)]

BearerText == <<"B", "e", "a", "r", "e", "r", " ">>

BasicText == <<"B", "a", "s", "i", "c", " ">>

\* mutant: user and password are looked at before the token
AuthorizationHeader_BasicFirst(config) ==
    IF IsTruthy(config.user) /\ IsTruthy(config.password)
    THEN "Authorization" :>
           (BasicText \o Base64(Bytes(config.user.chars \o <<":">>
                                      \o config.password.chars)))
    ELSE IF IsTruthy(config.token)
         THEN "Authorization" :> (BearerText \o config.token.chars)
    ELSE NoFields

\* the Authorization header: token, then user and password
AuthorizationHeader(config) ==
    IF IsTruthy(config.token)
    THEN "Authorization" :> (BearerText \o config.token.chars)
    ELSE IF IsTruthy(config.user) /\ IsTruthy(config.password)
         THEN "Authorization" :>
                (BasicText \o Base64(Bytes(config.user.chars \o <<":">>
                                           \o config.password.chars)))
    ELSE NoFields

\* the Cookie header: the configured cookies, then those of the login
CookieHeader(config, loginCookies) ==
    LET cookies == IF IsTruthy(config.loginUrl) /\ IsTruthy(loginCookies)
                   THEN IF IsTruthy(config.cookies)
                        THEN Str(config.cookies.chars \o <<";", " ">> \o loginCookies.chars)
                        ELSE loginCookies
                   ELSE config.cookies
    IN IF IsTruthy(cookies) THEN "Cookie" :> cookies.chars ELSE NoFields

\* buildAxiosConfig: the headers it returns and the login request it sent
buildAxiosConfig(config, loginResponse) ==
    LET login == performLogin(config, loginResponse)
    IN [headers |-> AuthorizationHeader(config) @@ CookieHeader(config, login.cookies),
        sent |-> login.sent]

----------------------------------------------------------------------------
(* getCachedSpec with authentication: the requests one call sends *)

TokenText == <<"t", "o", "k">>

CookiesText == <<"a", "=", "1">>

\* the configurations: every combination of credentials and cookies, with
\* and without a login flow
LoginFlows ==
    {[loginUrl |-> Undefined, loginMethod |-> Undefined, loginBody |-> Undefined]}
    \cup [loginUrl : {Str(<<"/", "l">>)},
          loginMethod : {Undefined, Str(<<"g", "e", "t">>)},
          loginBody : {Undefined, Str(<<"{", "}">>), Str(<<"{">>)}]

Configs ==
    {[url |-> ConfigUrl, token |-> token, user |-> user, password |-> password,
      cookies |-> cookies, loginUrl |-> flow.loginUrl,
      loginMethod |-> flow.loginMethod, loginBody |-> flow.loginBody] :
        token \in {Undefined, Str(TokenText)},
        user \in {Undefined, Str(<<"u">>)},
        password \in {Undefined, Str(<<"p", "w">>)},
        cookies \in {Undefined, Str(CookiesText)},
        flow \in LoginFlows}

\* responses to the login request: no response, a refusal, or a success
\* with the Set-Cookie headers of the list
LoginResponses ==
    {[kind |-> "neterr", status |-> 0, setCookie |-> <<>>],
     [kind |-> "response", status |-> 401, setCookie |-> <<>>]}
    \cup {[kind |-> "response", status |-> 200, setCookie |-> c] :
            c \in {<<>>,
                   << <<"s", "=", "1", ";", " ", "P", "a", "t", "h", "=", "/">>,
                      <<"t", "=", "2">> >>,
                   << <<"s", "=", "9">> >>}}

\* the entries readCacheEntry may return: none, one that the validators of the server
\* confirm, one without validators
ReadEntries ==
    {NoEntry,
     CacheEntry(ConfigUrl, EtagOf(1, TRUE), LmOf(1, TRUE), 0, 1),
     CacheEntry(ConfigUrl, None, None, 0, 1)}

InitRequests ==
    /\ remote = [doc |-> 1, etagOn |-> TRUE, lmOn |-> TRUE]
    /\ files = [f \in Paths |-> Absent]
    /\ clientSpec = 0
    /\ proc = [p \in Procs |-> IdleProc]
    /\ concurrent = FALSE
    /\ \E config \in Configs, entry \in ReadEntries :
          pure = [fn |-> "getCachedSpec", config |-> config, cachedEntry |-> entry,
                  pc |-> IF entry = NoEntry THEN "fetch" ELSE "check",
                  sent |-> <<>>, headCookies |-> Undefined,
                  getCookies |-> Undefined, head |-> [kind |-> "none"],
                  ret |-> NoEntry]

\* the request axios.head or axios.get sends with the built configuration
Request(kind, config, axiosConfig) ==
    [kind |-> kind,
     method |-> IF kind = "head" THEN <<"H", "E", "A", "D">> ELSE <<"G", "E", "T">>,
     url |-> config.url, headers |-> axiosConfig.headers, data |-> Undefined]

CheckRequest_NoLogin ==
    /\ pure.fn = "getCachedSpec"
    /\ pure.pc = "check"
    /\ \E r \in HeadResponses :
          pure' = [pure EXCEPT
                     !.sent = @ \o <<Request("head", pure.config,
                                             buildAxiosConfig(
                                                 [pure.config EXCEPT !.loginUrl = Undefined],
                                                 CHOOSE l \in LoginResponses : TRUE))>>,
                     !.pc = IF checkIfModified(r, pure.cachedEntry) THEN "fetch" ELSE "done",
                     !.ret = IF checkIfModified(r, pure.cachedEntry) THEN @
                             ELSE Doc(pure.cachedEntry.spec)]
    /\ UNCHANGED <<remote, files, clientSpec, proc, concurrent>>

\* checkIfModified: buildAxiosConfig, with its login, then the HEAD request
CheckRequest ==
    /\ pure.fn = "getCachedSpec"
    /\ pure.pc = "check"
    /\ \E loginResponse \in LoginResponses, r \in HeadResponses :
          LET axiosConfig == buildAxiosConfig(pure.config, loginResponse)
              isModified == checkIfModified(r, pure.cachedEntry)
          IN pure' = [pure EXCEPT
                        !.sent = @ \o axiosConfig.sent
                                   \o <<Request("head", pure.config, axiosConfig)>>,
                        !.headCookies = performLogin(pure.config, loginResponse).cookies,
                        !.head = r,
                        !.pc = IF isModified THEN "fetch" ELSE "done",
                        !.ret = IF isModified THEN @ ELSE Doc(pure.cachedEntry.spec)]
    /\ UNCHANGED <<remote, files, clientSpec, proc, concurrent>>

\* fetchSpec: buildAxiosConfig, with its login, then the GET request; then
\* writeCacheEntry, which may fail
FetchRequest ==
    /\ pure.fn = "getCachedSpec"
    /\ pure.pc = "fetch"
    /\ \E loginResponse \in LoginResponses, r \in GetResponses, written \in BOOLEAN :
          LET axiosConfig == buildAxiosConfig(pure.config, loginResponse)
              fetched == fetchSpec(r)
              result == IF ~fetched.ok
                        THEN getCachedSpecOnError(pure.cachedEntry, fetched.error)
                        ELSE IF written THEN Doc(fetched.spec)
                        ELSE getCachedSpecOnError(
                                 pure.cachedEntry,
                                 Raise("FsError", [what |-> "write", status |-> 0]))
          IN /\ pure' = [pure EXCEPT
                           !.sent = @ \o axiosConfig.sent
                                      \o <<Request("get", pure.config, axiosConfig)>>,
                           !.getCookies = performLogin(pure.config, loginResponse).cookies,
                           !.pc = "done",
                           !.ret = result]
             /\ files' = IF fetched.ok
                         THEN [files EXCEPT ![getCacheFilePath(pure.config.url)] =
                                 IF written THEN newCacheEntry(fetched, Now) ELSE Corrupt]
                         ELSE files
    /\ UNCHANGED <<remote, clientSpec, proc, concurrent>>

RequestsSpec == InitRequests /\ [][CheckRequest \/ FetchRequest]_vars

----------------------------------------------------------------------------
(* parser.ts: getModelByName; SwaggerClient: the operations on the document *)

\* x?.[key]
OptionalGet(x, key) == IF x.t \in {"undefined", "null"} THEN Undefined ELSE Get(x, key)

\* name.replace(/^prefix/, "")
StripPrefix(name, prefix) ==
    IF StartsWith(name, prefix) THEN SubSeq(name, Len(prefix) + 1, Len(name)) ELSE name

\* the four replacements of getModelByName and getModelDetails, in their order
CleanName(modelName) ==
    StripPrefix(
      StripPrefix(
        StripPrefix(
          StripPrefix(modelName,
                      <<"#", "/", "d", "e", "f", "i", "n", "i", "t", "i", "o", "n", "s", "/">>),
          <<"#", "/", "c", "o", "m", "p", "o", "n", "e", "n", "t", "s", "/",
            "s", "c", "h", "e", "m", "a", "s", "/">>),
        <<"d", "e", "f", "i", "n", "i", "t", "i", "o", "n", "s", "/">>),
      <<"c", "o", "m", "p", "o", "n", "e", "n", "t", "s", "/", "s", "c", "h", "e", "m", "a", "s", "/">>)

\* the models of the document: definitions in 2.0, components.schemas in 3.0+
ModelsOf(spec, version) ==
    IF version = "2.0" THEN Get(spec, "definitions")
    ELSE OptionalGet(Get(spec, "components"), "schemas")

getModelByName(spec, modelName) ==
    LET version == detectVersion(spec) IN
    IF ~version.ok THEN version
    ELSE LET model == OptionalGet(ModelsOf(spec, version.v), Text(CleanName(modelName)))
         IN Returned(IF IsTruthy(model) THEN model ELSE Null)

\* getSchemaDescription, for schemas without enum, pattern, length and range
\* and with a string for type
getSchemaDescription(schema) ==
    LET part(key, label) ==
            IF IsTruthy(Get(schema, key)) THEN <<label \o Get(schema, key).chars>>
            ELSE <<>>
        parts == part("description", <<>>)
                 \o part("type", <<"T", "y", "p", "e", ":", " ">>)
                 \o part("format", <<"F", "o", "r", "m", "a", "t", ":", " ">>)
    IN IF parts = <<>>
       THEN <<"N", "o", " ", "d", "e", "s", "c", "r", "i", "p", "t", "i", "o", "n", " ",
              "a", "v", "a", "i", "l", "a", "b", "l", "e">>
       ELSE Join(parts, <<";", " ">>)

getModelDetails(spec, modelName) ==
    LET schema == getModelByName(spec, modelName) IN
    IF ~schema.ok THEN schema
    ELSE IF ~IsTruthy(schema.v) THEN Returned(Null)
    ELSE LET resolved == resolveSchema(spec, schema.v, {}) IN
         IF ~resolved.ok THEN resolved
         ELSE LET type == Get(resolved.v, "type")
                  description == Get(resolved.v, "description")
              IN IF type = Str(ObjectText) \/ IsTruthy(Get(resolved.v, "properties"))
                 THEN Returned(Obj([name |-> Str(CleanName(modelName)),
                                    type |-> IF IsTruthy(type) THEN type
                                             ELSE Str(ObjectText),
                                    description |-> description,
                                    required |-> Get(resolved.v, "required"),
                                    properties |-> Get(resolved.v, "properties")]))
                 ELSE Returned(Obj([name |-> Str(CleanName(modelName)),
                                    type |-> type,
                                    description |->
                                        IF IsTruthy(description) THEN description
                                        ELSE Str(getSchemaDescription(resolved.v)),
                                    schema |-> resolved.v]))

\* listModels: the names as a set, Object.keys(models || {})
listModels(spec) ==
    LET version == detectVersion(spec) IN
    IF ~version.ok THEN version
    ELSE LET models == ModelsOf(spec, version.v)
         IN Returned(IF IsTruthy(models) THEN DOMAIN OwnEntries(models) ELSE {})

\* the base URL normalizeSpec computes, from strings: scheme, host and base
\* path in 2.0, the first server in 3.0+
BaseUrl(spec, version) ==
    IF version = "2.0"
    THEN IF IsTruthy(Get(spec, "host"))
         THEN LET scheme == OptionalGet(Get(spec, "schemes"), "0")
                  basePath == Get(spec, "basePath")
              IN Str((IF IsTruthy(scheme) THEN scheme.chars ELSE <<"h", "t", "t", "p">>)
                     \o <<":", "/", "/">> \o Get(spec, "host").chars
                     \o (IF IsTruthy(basePath) THEN basePath.chars ELSE <<>>))
         ELSE Undefined
    ELSE OptionalGet(OptionalGet(Get(spec, "servers"), "0"), "url")

getApiInfo(spec) ==
    LET normalized == normalizeSpec(spec) IN
    IF ~normalized.ok THEN normalized
    ELSE Returned(Obj([title |-> Get(normalized.v.info, "title"),
                       version |-> Get(spec, IF normalized.v.version = "2.0"
                                             THEN "swagger" ELSE "openapi"),
                       description |-> Get(normalized.v.info, "description"),
                       baseUrl |-> BaseUrl(spec, normalized.v.version)]))

\* the paths of the documents, as characters and in the order of their
\* properties in the document
PathTexts ==
    <<<<"/", "p", "e", "t", "s">>,
      <<"/", "p", "e", "t", "s", "/", "{", "p", "e", "t", "I", "d", "}">>,
      <<"/", "U", "s", "e", "r", "s">>,
      <<"/", "t", "a", "g", "s">>>>

\* the eight methods, in the order of the loop
MethodTexts ==
    <<<<"g", "e", "t">>,
      <<"p", "o", "s", "t">>,
      <<"p", "u", "t">>,
      <<"d", "e", "l", "e", "t", "e">>,
      <<"p", "a", "t", "c", "h">>,
      <<"o", "p", "t", "i", "o", "n", "s">>,
      <<"h", "e", "a", "d">>,
      <<"t", "r", "a", "c", "e">>>>

\* the operations of the document, in the order of the two nested loops of
\* searchApi and listAllApi: path items and operations that are falsy are
\* skipped (paths is an object whose keys are among PathTexts)
Operations(paths) ==
    LET keys == SelectSeq(PathTexts, LAMBDA c : Text(c) \in DOMAIN OwnEntries(paths))
        all == [k \in 1..(Len(keys) * Len(MethodTexts)) |->
                  LET path == keys[((k - 1) \div Len(MethodTexts)) + 1]
                      method == MethodTexts[((k - 1) % Len(MethodTexts)) + 1]
                  IN [path |-> path, method |-> method,
                      pathItem |-> Get(paths, Text(path)),
                      operation |-> Get(Get(paths, Text(path)), Text(method))]]
    IN SelectSeq(all, LAMBDA e : IsTruthy(e.pathItem) /\ IsTruthy(e.operation))

\* s.includes(q)
Includes(s, q) ==
    \E i \in 0..(Len(s) - Len(q)) : SubSeq(s, i + 1, i + Len(q)) = q

TextVerdict_CaseSensitive(value, lowerQuery) ==
    IF value.t # "string" THEN "throw"
    ELSE IF Includes(value.chars, lowerQuery) THEN "hit" ELSE "miss"

\* value.toLowerCase().includes(lowerQuery): "hit", "miss", or "throw" when
\* the value has no toLowerCase
TextVerdict(value, lowerQuery) ==
    IF value.t # "string" THEN "throw"
    ELSE IF Includes(ToLowerCase(value.chars), lowerQuery) THEN "hit" ELSE "miss"

\* value?.toLowerCase().includes(lowerQuery)
OptionalVerdict(value, lowerQuery) ==
    IF value.t \in {"undefined", "null"} THEN "miss" ELSE TextVerdict(value, lowerQuery)

\* the callback of parameters.some: name, then (||) description
ParamVerdict(param, lowerQuery) ==
    IF param.t \in {"undefined", "null"} THEN "throw"
    ELSE LET name == OptionalVerdict(Get(param, "name"), lowerQuery)
         IN IF name = "miss" THEN OptionalVerdict(Get(param, "description"), lowerQuery)
            ELSE name

\* list?.some(callback), from the verdicts of the callback on the elements:
\* some stops at the first element that hits or throws
SomeVerdict(list, verdicts) ==
    IF list.t \in {"undefined", "null"} THEN "miss"
    ELSE IF list.t # "array" THEN "throw"
    ELSE IF \A i \in 1..Len(verdicts) : verdicts[i] = "miss" THEN "miss"
    ELSE verdicts[CHOOSE i \in 1..Len(verdicts) :
                     /\ verdicts[i] # "miss"
                     /\ \A j \in 1..(i - 1) : verdicts[j] = "miss"]

\* the seven tests of searchApi on one operation, all of them evaluated
MatchVerdicts(e, lowerQuery) ==
    LET tags == Get(e.operation, "tags")
        parameters == Get(e.operation, "parameters")
    IN <<TextVerdict(Str(e.path), lowerQuery),
         TextVerdict(Str(e.method), lowerQuery),
         OptionalVerdict(Get(e.operation, "summary"), lowerQuery),
         OptionalVerdict(Get(e.operation, "description"), lowerQuery),
         OptionalVerdict(Get(e.operation, "operationId"), lowerQuery),
         SomeVerdict(tags, IF tags.t = "array"
                           THEN [i \in 1..Len(tags.items) |->
                                   TextVerdict(tags.items[i], lowerQuery)]
                           ELSE <<>>),
         SomeVerdict(parameters, IF parameters.t = "array"
                                 THEN [i \in 1..Len(parameters.items) |->
                                         ParamVerdict(parameters.items[i], lowerQuery)]
                                 ELSE <<>>)>>

\* one result of searchApi
SearchApiResult(e) ==
    LET summary == Get(e.operation, "summary")
        description == Get(e.operation, "description")
    IN Obj([path |-> Str(e.path),
            method |-> Str(ToUpperCase(e.method)),
            description |-> IF IsTruthy(summary) THEN summary
                            ELSE IF IsTruthy(description) THEN description
                            ELSE Str(ToUpperCase(e.method) \o <<" ">> \o e.path)])

\* searchApi once the document is there; query is a string
searchApi(spec, query) ==
    LET normalized == normalizeSpec(spec) IN
    IF ~normalized.ok THEN normalized
    ELSE IF normalized.v.paths.t \in {"undefined", "null"} THEN TypeErrorOfNullish
    ELSE LET operations == Operations(normalized.v.paths)
             verdicts == [k \in 1..Len(operations) |->
                            MatchVerdicts(operations[k], ToLowerCase(query))]
             matching == SelectSeq([k \in 1..Len(operations) |->
                                      [e |-> operations[k], verdicts |-> verdicts[k]]],
                                   LAMBDA m : \E i \in 1..7 : m.verdicts[i] = "hit")
             results == [k \in 1..Len(matching) |-> SearchApiResult(matching[k].e)]
         IN IF \E k \in 1..Len(operations), i \in 1..7 : verdicts[k][i] = "throw"
            THEN Thrown("TypeError: not a function")
            ELSE Returned(Obj([results |-> Arr(results), total |-> Num(Len(results))]))

\* the properties every object literal inherits from Object.prototype
InheritedKeys ==
    {"constructor", "toString", "toLocaleString", "valueOf", "hasOwnProperty",
     "isPrototypeOf", "propertyIsEnumerable", "__proto__", "__defineGetter__",
     "__defineSetter__", "__lookupGetter__", "__lookupSetter__"}

\* one endpoint of listAllApi
ApiEndpoint(e) ==
    Obj([path |-> Str(e.path),
         method |-> Str(ToUpperCase(e.method)),
         operationId |-> Get(e.operation, "operationId"),
         summary |-> Get(e.operation, "summary"),
         tags |-> Get(e.operation, "tags")])

\* the groups one operation is pushed to, in order: its tags (an array of
\* strings, or the characters of a string), or "Untagged"
GroupKeys(e) ==
    LET tags == Get(e.operation, "tags") IN
    IF IsTruthy(tags) /\ Get(tags, "length").t = "number" /\ Get(tags, "length").n > 0
    THEN IF tags.t = "array"
         THEN [i \in 1..Len(tags.items) |-> Text(tags.items[i].chars)]
         ELSE [i \in 1..Len(tags.chars) |-> tags.chars[i]]
    ELSE <<"Untagged">>

\* the pushes of the loop, in order: the group and the endpoint
RECURSIVE Placements(_)
Placements(operations) ==
    IF operations = <<>> THEN <<>>
    ELSE LET e == Head(operations)
             keys == GroupKeys(e)
         IN [i \in 1..Len(keys) |-> [group |-> keys[i], endpoint |-> ApiEndpoint(e)]]
            \o Placements(Tail(operations))

\* listAllApi once the document is there: groupedByTag starts as {}, so a
\* group named like an inherited property is found "there" and has no push
listAllApi(spec) ==
    LET normalized == normalizeSpec(spec) IN
    IF ~normalized.ok THEN normalized
    ELSE IF normalized.v.paths.t \in {"undefined", "null"} THEN TypeErrorOfNullish
    ELSE LET operations == Operations(normalized.v.paths)
             placements == Placements(operations)
             groups == {placements[i].group : i \in 1..Len(placements)}
             endpoints == [k \in 1..Len(operations) |-> ApiEndpoint(operations[k])]
         IN IF groups \cap InheritedKeys # {}
            THEN Thrown("TypeError: push is not a function")
            ELSE Returned(Obj(
                   [endpoints |-> Arr(endpoints),
                    total |-> Num(Len(endpoints)),
                    groupedByTag |->
                      Obj([g \in groups |->
                             Arr([i \in 1..Len(SelectSeq(placements,
                                                         LAMBDA pl : pl.group = g)) |->
                                    SelectSeq(placements,
                                              LAMBDA pl : pl.group = g)[i].endpoint])])]))

----------------------------------------------------------------------------
(* SwaggerClient: the operations as functions of the document *)

\* version markers: 2.0, an older swagger, 3.0.0, an openapi field that is
\* not 3.x, and none
Markers ==
    {[swagger |-> Str(<<"2", ".", "0">>)], [swagger |-> Str(<<"1", ".", "2">>)],
     [openapi |-> Str(<<"3", ".", "0", ".", "0">>)], [openapi |-> Str(<<"2", ".", "0">>)], NoFields}

\* the paths of the documents: operations with and without tags, summaries,
\* descriptions and parameters, a path item with parameters of its own, a
\* null operation and a null path item; no paths at all; a tag named like an
\* inherited property; a summary that is not a string
PathMaps ==
    {Obj(("/pets" :>
            Obj([get |-> Obj([summary |-> Str(<<"L", "i", "s", "t", " ", "p", "e", "t", "s">>),
                              operationId |-> Str(<<"l", "i", "s", "t", "P", "e", "t", "s">>),
                              tags |-> Arr(<<Str(<<"p", "e", "t">>)>>),
                              parameters |->
                                Arr(<<Obj([name |-> Str(<<"l", "i", "m", "i", "t">>),
                                           description |-> Str(<<"M", "a", "x", " ", "i", "t", "e", "m", "s">>)]),
                                      Obj(("$ref" :> Str(<<"#", "/", "p", "/", "L", "i", "m", "i", "t">>)))>>)]),
                 post |-> Obj([description |-> Str(<<"A", "d", "d", " ", "a", " ", "P", "e", "t">>),
                               tags |-> Arr(<<Str(<<"p", "e", "t">>), Str(<<"a", "d", "m", "i", "n">>)>>)]),
                 parameters |-> Arr(<<Obj([name |-> Str(<<"z", "o", "n", "e">>)])>>)]))
         @@ ("/pets/{petId}" :>
               Obj([delete |-> Obj([operationId |-> Str(<<"d", "r", "o", "p", "P", "e", "t">>)]),
                    get |-> Null]))
         @@ ("/Users" :>
               Obj([put |-> Obj([summary |-> Str(<<"E", "d", "i", "t">>), tags |-> Arr(<<>>)]),
                    head |-> Obj([tags |-> Arr(<<Str(<<"U", "n", "t", "a", "g", "g", "e", "d">>)>>)])]))
         @@ ("/tags" :> Null)),
     Obj(NoFields),
     Obj(("/pets" :>
            Obj([get |-> Obj([summary |-> Str(<<"L", "i", "s", "t", " ", "p", "e", "t", "s">>),
                              tags |-> Arr(<<Str(<<"p", "e", "t">>)>>)]),
                 post |-> Obj([tags |-> Arr(<<Str(<<"c", "o", "n", "s", "t", "r", "u", "c", "t", "o", "r">>)>>)])]))),
     Obj(("/pets" :>
            Obj([get |-> Obj([summary |-> Num(7),
                              tags |-> Arr(<<Str(<<"p", "e", "t">>)>>)])])))}

\* the documents: a marker, info, paths, and models both where 2.0 and
\* where 3.0+ keeps them
ClientDocuments ==
    {Obj(marker
         @@ [info |-> Obj([title |-> Str(<<"P", "e", "t", "s">>)]),
             host |-> Str(<<"h", ".", "i", "o">>),
             basePath |-> Str(<<"/", "v", "1">>),
             servers |-> Arr(<<Obj([url |-> Str(<<"h", "t", "t", "p", "s", ":", "/", "/", "s", ".", "i", "o">>)])>>),
             paths |-> paths,
             definitions |-> Obj([Pet |-> Obj([type |-> Str(ObjectText),
                                               properties |->
                                                 Obj([id |-> Obj([type |-> Str(StringText)])])]),
                                  Id |-> Obj([type |-> Str(StringText),
                                              format |-> Str(<<"u", "u", "i", "d">>)])]),
             components |-> Obj([schemas |->
                                   Obj([Tag |-> Obj([properties |->
                                                       Obj([name |-> Obj([type |-> Str(StringText)])])])])]),
             p |-> Obj([Limit |-> Obj([name |-> Str(<<"l", "i", "m", "i", "t">>)])])]) :
       marker \in Markers, paths \in PathMaps}

\* the calls: the operation and its arguments (a query, a path and a method,
\* a model name)
ClientCalls ==
    [op : {"searchApi"},
     query : {<<>>, <<"p", "e", "t">>, <<"P", "E", "T">>, <<"g", "e", "t">>, <<"l", "i", "m", "i", "t">>, <<"m", "a", "x">>, <<"a", "d", "m", "i", "n">>, <<"e", "d", "i", "t">>, <<"d", "r", "o", "p">>, <<"/", "u", "s", "e", "r", "s">>, <<"z", "o", "n", "e">>, <<"z", "z", "z">>},
     method : {<<>>}]
    \cup [op : {"getApiDetails"},
          query : {<<"/", "p", "e", "t", "s">>, <<"/", "n", "o", "p", "e">>},
          method : {<<"G", "E", "T">>, <<"p", "u", "t">>}]
    \cup [op : {"getModelDetails"},
          query : {<<"P", "e", "t">>, <<"#", "/", "d", "e", "f", "i", "n", "i", "t", "i", "o", "n", "s", "/", "I", "d">>, <<"c", "o", "m", "p", "o", "n", "e", "n", "t", "s", "/", "s", "c", "h", "e", "m", "a", "s", "/", "T", "a", "g">>, <<"G", "o", "n", "e">>},
          method : {<<>>}]
    \cup [op : {"listModels", "getApiInfo", "listAllApi", "checkApi"},
          query : {<<>>}, method : {<<>>}]
    \cup [op : {"cacheClear"}, query : {<<>>, <<"u", "1">>}, method : {<<>>}]

\* what getSpec gives the operation: the document, or the error of
\* getCachedSpec
GetSpecOutcome(spec, fetched) ==
    IF fetched THEN Returned(spec)
    ELSE Thrown("Error: Failed to fetch Swagger spec: No response from server")

\* what the request of checkApi, or the unlinks of the cache-clear, come to
IoOutcomes == {Returned(Obj([status |-> Num(200)])), Thrown("Error: request failed")}

\* checkApi: normalizeSpec, then the request
checkApi(spec, io) ==
    LET normalized == normalizeSpec(spec) IN
    IF ~normalized.ok THEN normalized ELSE io

\* the operation of the client (or, for the cache-clear tool, of the cache)
\* that the call names
ClientCall(obtained, call, io) ==
    IF call.op = "cacheClear" THEN io
    ELSE IF ~obtained.ok THEN obtained
    ELSE CASE call.op = "searchApi" -> searchApi(obtained.v, call.query)
           [] call.op = "getApiDetails" ->
                getApiDetails(obtained.v, call.query, call.method)
           [] call.op = "getModelDetails" -> getModelDetails(obtained.v, call.query)
           [] call.op = "listModels" -> listModels(obtained.v)
           [] call.op = "getApiInfo" -> getApiInfo(obtained.v)
           [] call.op = "listAllApi" -> listAllApi(obtained.v)
           [] call.op = "checkApi" -> checkApi(obtained.v, io)

\* String(error)
ErrorString(error) == [t |-> "string", of |-> error]

\* the operations that tools call, with the structured content of their
\* catch block, the key of their result and the text of "not found"
ToolCatch ==
    [searchApi |-> [results |-> Arr(<<>>), total |-> Num(0)],
     getApiDetails |-> [endpoint |-> Null],
     getModelDetails |-> [model |-> Null],
     listAllApi |-> [endpoints |-> Arr(<<>>), total |-> Num(0)],
     checkApi |-> [status |-> Num(0), statusText |-> Str(<<"E", "r", "r", "o", "r">>),
                   headers |-> Obj(NoFields), data |-> Null,
                   requestUrl |-> Str(<<>>), executionTime |-> Num(0)],
     cacheClear |-> [success |-> Bool(FALSE)]]

ToolHandler_NoCatch(call, outcome) == outcome

\* a tool handler: the structured content it returns for the outcome of the
\* operation; every handler has its whole body in a try block
ToolHandler(call, outcome) ==
    IF ~outcome.ok
    THEN Returned(Obj(ToolCatch[call.op]
                      @@ (IF call.op = "cacheClear" THEN "message" ELSE "error")
                         :> ErrorString(outcome.error)))
    ELSE CASE call.op \in {"searchApi", "listAllApi", "checkApi"} -> Returned(outcome.v)
           [] call.op = "getApiDetails" ->
                Returned(Obj(IF IsTruthy(outcome.v) THEN [endpoint |-> outcome.v]
                             ELSE [endpoint |-> Null,
                                   error |-> Str(<<"E", "n", "d", "p", "o", "i", "n", "t", " ", "n", "o", "t", " ", "f", "o", "u", "n", "d">>)]))
           [] call.op = "getModelDetails" ->
                Returned(Obj(IF IsTruthy(outcome.v) THEN [model |-> outcome.v]
                             ELSE [model |-> Null,
                                   error |-> Str(<<"M", "o", "d", "e", "l", " ", "n", "o", "t", " ", "f", "o", "u", "n", "d">>)]))
           [] call.op = "cacheClear" ->
                Returned(Obj([success |-> Bool(TRUE)]
                             @@ IF call.query # <<>>
                                THEN [clearedUrl |-> Str(call.query),
                                      clearedAll |-> Bool(FALSE)]
                                ELSE [clearedAll |-> Bool(TRUE)]))

InitClient ==
    /\ remote = [doc |-> 1, etagOn |-> TRUE, lmOn |-> TRUE]
    /\ files = [f \in Paths |-> Absent]
    /\ clientSpec = 0
    /\ proc = [p \in Procs |-> IdleProc]
    /\ concurrent = FALSE
    /\ \E document \in ClientDocuments, call \in ClientCalls, fetched \in BOOLEAN :
          pure = [fn |-> "client", spec |-> document, fetched |-> fetched,
                  call |-> call, applied |-> FALSE,
                  result |-> Returned(Undefined), tool |-> Returned(Undefined)]

\* the call, and for a tool its handler on the outcome of the call
ApplyClient ==
    /\ pure.fn = "client"
    /\ ~pure.applied
    /\ \E io \in IoOutcomes :
       \E outcome \in {ClientCall(GetSpecOutcome(pure.spec, pure.fetched), pure.call, io)} :
          pure' = [pure EXCEPT
                        !.applied = TRUE,
                        !.result = outcome,
                        !.tool = IF pure.call.op \in DOMAIN ToolCatch
                                 THEN ToolHandler(pure.call, outcome)
                                 ELSE @]
    /\ UNCHANGED <<remote, files, clientSpec, proc, concurrent>>

ClientSpec == InitClient /\ [][ApplyClient]_vars

\* sequential sessions
Spec == Init /\ [][Next]_vars

\* sessions with overlapping requests
ConcSpec == InitConcurrent /\ [][Next]_vars

----------------------------------------------------------------------------
(* Vocabulary of the properties *)

\* request p is a call of obtain (getCachedSpec) through the client
IsObtain(p) == proc[p].op \in {"getSpec", "refreshSpec"}

\* request p has its answer
Ended(p) == proc[p].pc \in {"done", "raised"}

\* the call read a Cache Entry
HasEntry(p) == proc[p].cachedEntry # NoEntry

\* the lightweight check of the call succeeded and carried validators
HeadOk(p) == proc[p].head.kind = "response" /\ proc[p].head.status < 400

\* the lightweight check of the call failed or was ambiguous
HeadFailedOrAmbiguous(p) ==
    \/ proc[p].head.kind \in {"neterr", "failed"}
    \/ /\ proc[p].head.kind = "response"
       /\ \/ proc[p].head.status >= 400
          \/ proc[p].head.etag = None /\ proc[p].head.lm = None

\* the full fetch of the call was made and failed: no response, or a status
\* other than 200
FetchFailed(p) ==
    /\ proc[p].gets = 1
    /\ proc[p].get.kind = "neterr" \/ proc[p].get.status # 200

\* the full fetch of the call was made and delivered a document
FetchSucceeded(p) ==
    /\ proc[p].gets = 1
    /\ proc[p].get.kind = "response" /\ proc[p].get.status = 200

ConfigFile == files[getCacheFilePath(ConfigUrl)]

----------------------------------------------------------------------------
(* Spec Cache: properties *)

\* C1 (outage fallback): a call of obtain that read a Cache Entry, judged it
\* stale and whose full fetch failed, by a transport error or a non-success
\* status, returns the document of the entry it read and does not raise.
C1_OutageFallback ==
    \A p \in Procs :
        (IsObtain(p) /\ Ended(p) /\ HasEntry(p) /\ proc[p].isModified /\ FetchFailed(p))
        => /\ proc[p].pc = "done"
           /\ proc[p].ret = Doc(proc[p].cachedEntry.spec)

C1_Witness ==
    \E p \in Procs :
        /\ IsObtain(p) /\ proc[p].pc = "done" /\ HasEntry(p)
        /\ proc[p].isModified /\ FetchFailed(p)
        /\ proc[p].get.kind = "neterr"
        /\ proc[p].cachedEntry.spec # remote.doc

\* C2 (freshness): a call of obtain that read a Cache Entry with etag E and
\* whose lightweight check succeeded reporting the same etag E returns exactly
\* the document of that entry and makes no full fetch.
C2_Freshness ==
    \A p \in Procs :
        (/\ IsObtain(p) /\ HasEntry(p) /\ proc[p].heads = 1 /\ HeadOk(p)
         /\ Truthy(proc[p].cachedEntry.etag)
         /\ proc[p].head.etag = proc[p].cachedEntry.etag)
        => /\ proc[p].pc = "done"
           /\ proc[p].ret = Doc(proc[p].cachedEntry.spec)
           /\ proc[p].gets = 0
           /\ proc[p].opens = 0

C2_Witness ==
    \E p \in Procs :
        /\ IsObtain(p) /\ proc[p].pc = "done" /\ HasEntry(p) /\ HeadOk(p)
        /\ proc[p].cachedEntry.etag = "v1" /\ proc[p].head.etag = "v1"
        /\ proc[p].ret = Doc(proc[p].cachedEntry.spec)

\* the premise of C3: the entry read has an etag, the check reports another
StaleByEtag(p) ==
    /\ IsObtain(p) /\ HasEntry(p) /\ proc[p].heads = 1 /\ HeadOk(p)
    /\ Truthy(proc[p].cachedEntry.etag) /\ Truthy(proc[p].head.etag)
    /\ proc[p].head.etag # proc[p].cachedEntry.etag

\* C3 as stated (staleness triggers re-fetch): with an entry of etag "v1" and
\* a check reporting "v2", obtain makes a full fetch and, when the fetch
\* succeeds, the entry on disk has the etag the check reported and the fetched
\* document, which obtain returns.
C3_AsStated ==
    \A p \in Procs :
        (StaleByEtag(p) /\ Ended(p))
        => /\ proc[p].gets = 1
           /\ FetchSucceeded(p)
              => /\ proc[p].pc = "done"
                 /\ ConfigFile.kind = "entry"
                 /\ ConfigFile.etag = proc[p].head.etag
                 /\ ConfigFile.spec = proc[p].get.doc
                 /\ proc[p].ret = Doc(proc[p].get.doc)

\* C3 amended: with an entry of etag "v1" and a check reporting "v2", obtain
\* makes a full fetch; when the fetch succeeds and the write of the new entry
\* completes, in a session without overlapping requests, the entry on disk
\* has the etag and the document of the full-fetch response (the etag is
\* "v2" when the GET reports what the check reported), and obtain returns
\* that document; when the write fails, obtain returns the document of the
\* entry it read.
C3_Refetch ==
    \A p \in Procs :
        (StaleByEtag(p) /\ (Ended(p) \/ proc[p].pc \in {"write", "writing"}))
        => /\ proc[p].gets = 1
           /\ (FetchSucceeded(p) /\ proc[p].writes = 1)
              => /\ proc[p].pc = "done"
                 /\ ConfigFile.kind = "entry"
                 /\ ConfigFile.url = ConfigUrl
                 /\ ConfigFile.etag = proc[p].get.etag
                 /\ ConfigFile.lastModified = proc[p].get.lm
                 /\ ConfigFile.spec = proc[p].get.doc
                 /\ proc[p].ret = Doc(proc[p].get.doc)
                 /\ (proc[p].get.etag = proc[p].head.etag
                     => ConfigFile.etag = proc[p].head.etag)
           /\ (FetchSucceeded(p) /\ Ended(p) /\ proc[p].writes = 0)
              => /\ proc[p].pc = "done"
                 /\ proc[p].ret = Doc(proc[p].cachedEntry.spec)

C3_Witness ==
    \E p \in Procs :
        /\ StaleByEtag(p) /\ proc[p].pc = "done" /\ proc[p].writes = 1
        /\ proc[p].cachedEntry.etag = "v1" /\ proc[p].head.etag = "v2"
        /\ ConfigFile.kind = "entry" /\ ConfigFile.etag = "v2"
        /\ proc[p].ret = Doc(ConfigFile.spec)

\* C4: without a Cache Entry, a failed full fetch makes obtain raise a
\* FetchError that carries the HTTP status or the transport cause, and the
\* call creates no entry.
C4_NoCacheFetchError ==
    \A p \in Procs :
        (IsObtain(p) /\ Ended(p) /\ ~HasEntry(p) /\ FetchFailed(p))
        => /\ proc[p].pc = "raised"
           /\ proc[p].ret.kind = "FetchError"
           /\ IF proc[p].get.kind = "neterr"
              THEN proc[p].ret.cause.what = "No response"
              ELSE /\ proc[p].ret.cause.what = "HTTP"
                   /\ proc[p].ret.cause.status = proc[p].get.status
           /\ proc[p].opens = 0 /\ proc[p].writes = 0
           /\ ConfigFile.kind # "entry"

C4_Witness ==
    \E p \in Procs :
        /\ IsObtain(p) /\ proc[p].pc = "raised" /\ ~HasEntry(p) /\ FetchFailed(p)
        /\ proc[p].get.status = 404
        /\ ConfigFile = Absent

\* a header value with "missing" and "empty" taken as one
Present(v) == IF Truthy(v) THEN v ELSE None

\* the check succeeded and carries at least one validator
Validated(response) ==
    /\ response.kind = "response" /\ response.status < 400
    /\ Truthy(response.etag) \/ Truthy(response.lm)

Decided == pure.fn = "checkIfModified" /\ pure.applied

\* C5 as stated (validator comparison): on a successful check with at least
\* one validator the cache is stale if the remote etag differs from the stored
\* etag; otherwise, if both lack an etag and the remote last-modified differs
\* from the stored one, it is stale; in every other case it is fresh.
C5_AsStated ==
    (Decided /\ Validated(pure.response))
    => pure.result =
         (IF Present(pure.response.etag) # Present(pure.cachedEntry.etag) THEN TRUE
          ELSE IF /\ Present(pure.response.etag) = None
                  /\ Present(pure.cachedEntry.etag) = None
                  /\ Present(pure.response.lm) # Present(pure.cachedEntry.lastModified)
               THEN TRUE
          ELSE FALSE)

\* C5 amended: on a successful check with at least one validator, if both the
\* response and the entry carry a (non-empty) etag the cache is stale exactly
\* when the etags differ; otherwise, if both carry a (non-empty) last-modified,
\* it is stale exactly when these differ, whatever etag one side alone has;
\* otherwise it is stale.
C5_ValidatorComparison ==
    (Decided /\ Validated(pure.response))
    => LET bothEtag == Truthy(pure.response.etag) /\ Truthy(pure.cachedEntry.etag)
           bothLm == Truthy(pure.response.lm) /\ Truthy(pure.cachedEntry.lastModified)
       IN
       /\ bothEtag => (pure.result <=> pure.response.etag # pure.cachedEntry.etag)
       /\ (~bothEtag /\ bothLm)
          => (pure.result <=> pure.response.lm # pure.cachedEntry.lastModified)
       /\ (~bothEtag /\ ~bothLm) => pure.result

\* an etag on one side only and equal last-modified values: fresh
C5_Witness ==
    /\ Decided /\ Validated(pure.response)
    /\ pure.response.etag = "v1" /\ pure.cachedEntry.etag = None
    /\ pure.response.lm = "t1" /\ pure.cachedEntry.lastModified = "t1"
    /\ pure.result = FALSE

\* C6: the lightweight check is never fatal: after a 405, a 4xx/5xx status, a
\* response without validators or a network error the entry counts as stale
\* and the call goes on to the full fetch; a call that made the check never
\* raises.
C6_CheckNeverFatal ==
    \A p \in Procs :
        /\ (IsObtain(p) /\ proc[p].heads = 1 /\ HeadFailedOrAmbiguous(p))
           => /\ proc[p].isModified
              /\ proc[p].pc = "fetch" \/ proc[p].gets = 1
        /\ (IsObtain(p) /\ proc[p].heads = 1) => proc[p].pc # "raised"

C6_Witness ==
    \E p \in Procs :
        /\ IsObtain(p) /\ proc[p].pc = "fetch" /\ proc[p].heads = 1
        /\ proc[p].head.kind = "response" /\ proc[p].head.status = 500

\* C7 as stated: every request after the first of a session revalidates the
\* document: a getSpec answered while the session already holds a document
\* made a HEAD check in that call.
C7_AsStated ==
    \A p \in Procs :
        (proc[p].op = "getSpec" /\ proc[p].pc = "done" /\ proc[p].held)
        => proc[p].heads = 1

\* C8 as stated: the first getSpec called after a cache-clear covering the
\* configured URL has completed makes a full fetch.
C8_AsStated ==
    \A p \in Procs :
        (proc[p].op = "getSpec" /\ Ended(p) /\ proc[p].afterClear)
        => proc[p].gets = 1

\* C9 as stated: every call of refreshSpec makes a full fetch, and the
\* document the client holds afterwards is the fetched one.
C9_AsStated ==
    \A p \in Procs :
        (proc[p].op = "refreshSpec" /\ Ended(p))
        => /\ proc[p].gets = 1
           /\ proc[p].pc = "done"
              => (FetchSucceeded(p) /\ clientSpec = proc[p].get.doc)

----------------------------------------------------------------------------
(* Resolver: properties *)

Resolved == pure.fn = "resolveSchema" /\ pure.applied

\* C10 as stated: resolveSchema is total: for every document and every
\* fragment the call returns a fragment and raises nothing to its caller.
C10_AsStated == Resolved => pure.result.ok

\* the values held by a JSON value
Children(v) ==
    CASE v.t = "object" -> {v.fields[k] : k \in DOMAIN v.fields}
      [] v.t = "array" -> {v.items[i] : i \in 1..Len(v.items)}
      [] OTHER -> {}

\* w occurs in v, at any depth
RECURSIVE Occurs(_, _)
Occurs(w, v) == w = v \/ \E c \in Children(v) : Occurs(w, c)

\* some object in v, at any depth, still carries a reference
RECURSIVE CarriesRef(_)
CarriesRef(v) ==
    \/ v.t = "object" /\ "$ref" \in DOMAIN v.fields
    \/ \E c \in Children(v) : CarriesRef(c)

\* the placeholder {type: object, description naming the pointer}
PlaceholderNaming(pointer) ==
    Obj([type |-> Str(ObjectText), description |-> Str(CircularText \o pointer)])

\* the schemas of the document that lie on a reference cycle, of length one,
\* two and three
CyclicNames ==
    {<<"N", "o", "d", "e">>, <<"P", "i", "n", "g">>, <<"R", "i", "n", "g", "1">>}

\* fragments that hold f where a schema is expected
SchemaPositions(f) ==
    {f, Obj([items |-> f]), Obj([items |-> Arr(<<f, f>>)]),
     Obj([additionalProperties |-> f]), Obj([allOf |-> Arr(<<f>>)]),
     Obj([anyOf |-> Arr(<<f>>)]), Obj([not |-> f])}

\* C11: resolution terminates: a reference to a schema on a reference cycle
\* of any length (here one, two and three) returns a fragment in which the
\* cycle is cut by the circular-reference placeholder naming the pointer met
\* again, and in which no reference is left.
C11_CyclesCut ==
    \A name \in CyclicNames :
        (/\ Resolved /\ pure.spec = FullDocument
         /\ pure.schema \in SchemaPositions(RefTo(name)))
        => /\ pure.result.ok
           /\ Occurs(PlaceholderNaming(SchemaRef(name).chars), pure.result.v)
           /\ ~CarriesRef(pure.result.v)

\* the cycle of three, entered at Ring1, is cut where Ring3 refers to Ring1
C11_Witness ==
    /\ Resolved /\ pure.spec = FullDocument
    /\ pure.schema = RefTo(<<"R", "i", "n", "g", "1">>)
    /\ pure.result.ok
    /\ pure.result.v.fields.items.fields.allOf.items[1]
         = PlaceholderNaming(SchemaRef(<<"R", "i", "n", "g", "1">>).chars)

\* the pointer to Node
NodePointer == SchemaRef(<<"N", "o", "d", "e">>).chars

\* Node expanded once: its own fields, next being the placeholder
NodeExpandedOnce ==
    Obj([type |-> Str(ObjectText),
         properties |-> Obj([next |-> PlaceholderNaming(NodePointer)])])

\* C12 (self-cycle): Node refers to itself through its property next.
\* Resolving a reference to Node gives Node expanded once, whose next is the
\* placeholder {type: object, description naming the pointer}; resolving the
\* schema of Node itself, as getModelDetails does, gives Node whose next is
\* that one expansion, so next.next is the placeholder. The call returns.
C12_SelfCycle ==
    (Resolved /\ pure.spec = FullDocument)
    => /\ pure.schema = RefTo(<<"N", "o", "d", "e">>)
          => pure.result = Returned(NodeExpandedOnce)
       /\ pure.schema = Schemas.Node
          => /\ pure.result.ok
             /\ pure.result.v.fields.type = Str(ObjectText)
             /\ pure.result.v.fields.properties.fields.next = NodeExpandedOnce

C12_Witness ==
    /\ Resolved /\ pure.spec = FullDocument /\ pure.schema = Schemas.Node
    /\ pure.result.ok
    /\ pure.result.v.fields.properties.fields.next.fields.properties.fields.next
         = PlaceholderNaming(NodePointer)

\* schemas that resolve in full, and what they resolve to
TagResolved == Obj([type |-> Str(StringText)])

PetResolved ==
    Obj([type |-> Str(ObjectText),
         properties |-> Obj([tag |-> TagResolved]),
         description |-> Str(<<"p", "e", "t">>)])

FullTargets ==
    {[ref |-> RefTo(<<"P", "e", "t">>), full |-> PetResolved],
     [ref |-> RefTo(<<"T", "a", "g">>), full |-> TagResolved],
     [ref |-> RefTo(<<"a", "~", "1", "b">>), full |-> TagResolved],
     [ref |-> RefTo(<<"N", "o", "d", "e">>), full |-> NodeExpandedOnce]}

\* every position under which resolveSchema descends holds f
Siblings(f, g) ==
    Obj([properties |-> Obj([a |-> f, b |-> g]), items |-> Arr(<<f, g>>),
         additionalProperties |-> f, allOf |-> Arr(<<f, g>>),
         oneOf |-> Arr(<<f, g>>), anyOf |-> Arr(<<f, g>>), not |-> f])

\* C13 (sibling independence): when sibling branches (properties, array
\* items, additionalProperties, allOf/oneOf/anyOf members, not) refer to the
\* same target, each of them is resolved to the full target, none becomes a
\* circular-reference placeholder because of a sibling, also when one
\* sibling reaches the target of the other through its own references, and
\* in either order of the siblings.
C13_SiblingIndependence ==
    (Resolved /\ pure.spec = FullDocument)
    => \A x \in FullTargets :
          /\ pure.schema = Siblings(x.ref, x.ref)
             => pure.result = Returned(Siblings(x.full, x.full))
          /\ pure.schema = Obj([items |-> Arr(<<x.ref, x.ref>>)])
             => pure.result = Returned(Obj([items |-> Arr(<<x.full, x.full>>)]))
          /\ pure.schema = Obj([oneOf |-> Arr(<<x.ref, RefTo(<<"T", "a", "g">>)>>)])
             => pure.result = Returned(Obj([oneOf |-> Arr(<<x.full, TagResolved>>)]))
          /\ pure.schema = Obj([oneOf |-> Arr(<<RefTo(<<"T", "a", "g">>), x.ref>>)])
             => pure.result = Returned(Obj([oneOf |-> Arr(<<TagResolved, x.full>>)]))
          /\ pure.schema = Obj([properties |->
                                  Obj([a |-> x.ref, b |-> RefTo(<<"T", "a", "g">>)])])
             => pure.result = Returned(Obj([properties |->
                                  Obj([a |-> x.full, b |-> TagResolved])]))

\* Pet under every keyword at once: seven positions, each the full Pet
C13_Witness ==
    /\ Resolved /\ pure.spec = FullDocument
    /\ pure.schema = Siblings(RefTo(<<"P", "e", "t">>), RefTo(<<"P", "e", "t">>))
    /\ pure.result.ok
    /\ pure.result.v.fields.items.items[2] = PetResolved
    /\ pure.result.v.fields["not"] = PetResolved

\* the fragment carries a reference that the document resolves to a schema
\* object, next to sibling keywords
MergeTargets ==
    {[pointer |-> SchemaRef(<<"P", "e", "t">>), target |-> Schemas.Pet],
     [pointer |-> SchemaRef(<<"T", "a", "g">>), target |-> Schemas.Tag]}

RefWithSiblings(schema, pointer) ==
    /\ schema.t = "object"
    /\ "$ref" \in DOMAIN schema.fields
    /\ schema.fields["$ref"] = pointer
    /\ DOMAIN schema.fields # {"$ref"}

NestedKeywordSet == {NestedKeywords[i] : i \in 1..Len(NestedKeywords)}

\* C14 as stated (merge-with-override): a fragment with a reference and
\* sibling keywords resolves to the fields of the target merged with the
\* siblings: every sibling keyword is in the result, with the sibling's value
\* where it is not itself resolved further, every other field of the target
\* is in the result, and the $ref key is gone.
C14_AsStated ==
    \A m \in MergeTargets :
        (/\ Resolved /\ pure.spec = FullDocument
         /\ RefWithSiblings(pure.schema, m.pointer))
        => /\ pure.result.ok
           /\ pure.result.v.t = "object"
           /\ "$ref" \notin DOMAIN pure.result.v.fields
           /\ DOMAIN pure.result.v.fields
                = (DOMAIN m.target.fields \cup DOMAIN pure.schema.fields) \ {"$ref"}
           /\ \A k \in DOMAIN pure.result.v.fields \ NestedKeywordSet :
                 pure.result.v.fields[k] = IF k \in DOMAIN pure.schema.fields
                                           THEN pure.schema.fields[k]
                                           ELSE m.target.fields[k]
           /\ "properties" \in DOMAIN pure.schema.fields
              => DOMAIN pure.result.v.fields.properties.fields
                   = DOMAIN pure.schema.fields.properties.fields

\* pointers the full document does not resolve: a missing segment, a walk
\* through a string, a pointer that is not internal, an empty segment
UnresolvablePointers ==
    {SchemaRef(<<"G", "o", "n", "e">>),
     SchemaRef(<<"T", "a", "g", "/", "t", "y", "p", "e", "/", "x">>),
     Str(<<"x", ".", "j", "s", "#", "/", "s">>),
     Str(<<"#", "/">>)}

\* f carries a pointer that the document does not resolve; the documents
\* without schemas resolve none
Unresolvable(spec, f) ==
    /\ f.t = "object" /\ "$ref" \in DOMAIN f.fields
    /\ f.fields["$ref"].t = "string"
    /\ spec # FullDocument \/ f.fields["$ref"] \in UnresolvablePointers

\* what a reference to Tag resolves to in the document
TagIn(spec) == IF spec = FullDocument THEN TagResolved ELSE RefTo(<<"T", "a", "g">>)

----------------------------------------------------------------------------
(* get-api-details: properties *)

Detailed == pure.fn = "getApiDetails" /\ pure.applied

\* C16 as stated: for an endpoint of a document whose references are all
\* internal and resolvable, the parameters, the request body and the
\* responses that get-api-details returns contain no $ref.
C16_AsStated ==
    (Detailed /\ pure.result.ok /\ pure.result.v # Null)
    => /\ ~CarriesRef(pure.result.v.fields.parameters)
       /\ ~CarriesRef(pure.result.v.fields.requestBody)
       /\ ~CarriesRef(pure.result.v.fields.responses)

----------------------------------------------------------------------------
(* Authentication: properties *)

Requesting == pure.fn = "getCachedSpec"

\* the positions, in the requests sent, of the HEAD and GET requests
DocumentRequests ==
    {i \in DOMAIN pure.sent : pure.sent[i].kind \in {"head", "get"}}

\* what the login flow gave to the request at position i
LoginCookiesOf(i) ==
    IF pure.sent[i].kind = "head" THEN pure.headCookies ELSE pure.getCookies

BasicOfUserAndPassword ==
    <<"B", "a", "s", "i", "c", " ", "d", "T", "p", "w", "d", "w", "=", "=">>

AuthHeaders(request) ==
    [name \in DOMAIN request.headers \cap {"Authorization", "Cookie"} |->
       request.headers[name]]

\* C18 as stated: the HEAD check, the full fetch and the login requests of
\* one call all carry the same authentication headers.
C18_AsStated ==
    Requesting =>
    \A i, j \in DOMAIN pure.sent :
        AuthHeaders(pure.sent[i]) = AuthHeaders(pure.sent[j])

\* C18: the HEAD check and the full fetch of one call carry the same
\* Authorization header, and the same Cookie header whenever the login run
\* for each of them gave the same cookies; a login request carries neither
\* an Authorization nor a Cookie header.
C18_SameComputation ==
    Requesting =>
    /\ \A i, j \in DocumentRequests :
          /\ \A headers \in {pure.sent[i].headers, pure.sent[j].headers} :
                "Authorization" \in DOMAIN headers
                => /\ "Authorization" \in DOMAIN pure.sent[i].headers
                   /\ "Authorization" \in DOMAIN pure.sent[j].headers
                   /\ pure.sent[i].headers["Authorization"]
                        = pure.sent[j].headers["Authorization"]
          /\ LoginCookiesOf(i) = LoginCookiesOf(j)
             => AuthHeaders(pure.sent[i]) = AuthHeaders(pure.sent[j])
    /\ \A i \in DOMAIN pure.sent :
          pure.sent[i].kind = "login" => AuthHeaders(pure.sent[i]) = NoFields

\* a login, the HEAD check, a second login and the full fetch, with a token
\* and cookies configured and the same cookies from both logins
C18_Witness ==
    /\ Requesting /\ pure.pc = "done"
    /\ Len(pure.sent) = 4
    /\ pure.sent[1].kind = "login" /\ pure.sent[2].kind = "head"
    /\ pure.sent[3].kind = "login" /\ pure.sent[4].kind = "get"
    /\ IsTruthy(pure.config.token) /\ IsTruthy(pure.config.cookies)
    /\ IsTruthy(pure.headCookies) /\ pure.headCookies = pure.getCookies
    /\ AuthHeaders(pure.sent[1]) = NoFields
    /\ DOMAIN AuthHeaders(pure.sent[2]) = {"Authorization", "Cookie"}
    /\ AuthHeaders(pure.sent[2]) = AuthHeaders(pure.sent[4])

----------------------------------------------------------------------------
(* Failure propagation and cache-clear: properties *)

\* C19 as stated: a call of obtain that raises, raises a FetchError, after a
\* full fetch that failed with no Cache Entry read; every other call returns
\* a document.
C19_AsStated ==
    \A p \in Procs :
        (IsObtain(p) /\ Ended(p))
        => IF proc[p].pc = "raised"
           THEN /\ proc[p].ret.kind = "FetchError"
                /\ ~HasEntry(p) /\ FetchFailed(p)
           ELSE proc[p].ret.kind = "doc"

\* the Cache Entries on disk of the URLs other than url
EntriesOfOthers(disk, url) ==
    {f \in Paths : disk[f].kind = "entry" /\ disk[f].url # url}

\* C20: clearCache(url) with no file for url returns at once, without an
\* error and with every file as it was; with a file for url it returns
\* without an error when that file is deleted, after which no Cache Entry of
\* url is on disk; neither step changes the entry of another URL.
C20_ClearCache ==
    [][\A p \in Procs :
          LET url == proc'[p].url
              called == proc[p].pc = "idle" /\ proc'[p].op = "clearCache"
              unlinked == proc[p].op = "clearCache" /\ proc[p].pc = "unlink"
                          /\ proc'[p].pc # "unlink"
          IN /\ called
                => /\ files' = files
                   /\ IF \E f \in Paths : files[f].kind = "entry" /\ files[f].url = url
                      THEN proc'[p].pc = "unlink"
                      ELSE files[getCacheFilePath(url)] = Absent
                           => proc'[p].pc = "done"
             /\ unlinked
                => /\ proc'[p].pc = "done"
                   /\ \A f \in Paths : ~(files'[f].kind = "entry" /\ files'[f].url = url)
                   /\ EntriesOfOthers(files', url) = EntriesOfOthers(files, url)
                   /\ \A f \in EntriesOfOthers(files, url) : files'[f] = files[f]
      ]_vars

\* clearCache(ConfigUrl) has deleted the entry of the configured URL, and
\* the entry of the other URL is still on disk
C20_Witness ==
    \E p \in Procs :
        /\ proc[p].op = "clearCache" /\ proc[p].url = ConfigUrl
        /\ proc[p].pc = "done" /\ proc[p].path = "unlinked"
        /\ ConfigFile = Absent
        /\ files[getCacheFilePath(OtherUrl)] = OtherEntry

----------------------------------------------------------------------------
(* Overlapping requests: properties *)

\* C21 as stated: clearAllCache completes without error, also when a file it
\* listed is removed by an overlapping clear before it unlinks it, and when
\* it has completed none of the files it listed is left.
C21_AsStated ==
    \A p \in Procs :
        (proc[p].op = "clearAllCache" /\ Ended(p))
        => /\ proc[p].pc = "done"
           /\ proc[p].listed = {}

----------------------------------------------------------------------------
(* SwaggerClient operations: properties *)

Called == pure.fn = "client" /\ pure.applied

UnknownVersion == Thrown("Error: Unknown or unsupported OpenAPI/Swagger version")

\* the document carries swagger = "2.0" or an openapi marker 3.x
Recognizable(spec) ==
    \/ Get(spec, "swagger") = Str(<<"2", ".", "0">>)
    \/ /\ Get(spec, "openapi").t = "string"
       /\ StartsWith(Get(spec, "openapi").chars, <<"3", ".">>)

\* C22 as stated: on a document with neither swagger = "2.0" nor a 3.x
\* openapi marker each of searchApi, getApiDetails, getModelDetails,
\* listModels, getApiInfo and listAllApi fails with the unknown-version
\* error; on a document with one of the two markers none of them does.
C22_AsStated ==
    (Called /\ pure.fetched /\ pure.call.op # "cacheClear")
    => IF Recognizable(pure.spec)
              THEN pure.result # UnknownVersion
              ELSE pure.result = UnknownVersion

\* C23 as stated: when overlapping calls of obtain each fetch and each write,
\* every write that completes leaves its own entry on disk, so that after
\* both the entry is that of the write that completed last, and each call
\* returns the document of its own fetch. (A write whose file was unlinked by
\* a cache-clear in the meantime is left aside.)
C23_AsStated ==
    [][\A p \in Procs :
          (/\ IsObtain(p) /\ proc[p].pc = "writing" /\ ~proc[p].unlinked
           /\ proc'[p].pc = "done" /\ proc'[p].writes = proc[p].writes + 1)
          => /\ files'[getCacheFilePath(proc[p].url)] = proc[p].newEntry
             /\ proc'[p].ret = Doc(proc[p].get.doc)
      ]_vars

\* C24 as stated: the file of the configured URL is at every moment absent
\* or one complete entry, so that a call of obtain that is about to read the
\* file it found reads a complete entry.
C24_AsStated ==
    /\ ConfigFile.kind \in {"absent", "entry"}
    /\ \A p \in Procs :
          (IsObtain(p) /\ proc[p].pc = "readFile") => ConfigFile.kind = "entry"

\* ---------------------------------------------------------------------
\* Tool handlers: properties
\* ---------------------------------------------------------------------

ToolCalled == pure.fn = "client" /\ pure.applied /\ pure.call.op \in DOMAIN ToolCatch

\* the key under which a handler reports the failure
FailureKey(call) == IF call.op = "cacheClear" THEN "message" ELSE "error"

\* the structured content reports "not found" under the key
NotFound(content, key, text) ==
    /\ content.fields[key] = Null
    /\ "error" \in DOMAIN content.fields
    /\ content.fields["error"] = Str(text)

\* C25: every tool handler (search-api, get-api-details, get-model-details,
\* list-all-api, check-api, cache-clear) returns a result and never raises;
\* an error raised by the operation it calls is reported in the result, and
\* an endpoint or a model that does not exist gives the result "not found".
C25_HandlersReturn ==
    ToolCalled =>
        /\ pure.tool.ok
        /\ ~pure.result.ok =>
              /\ FailureKey(pure.call) \in DOMAIN pure.tool.v.fields
              /\ pure.tool.v.fields[FailureKey(pure.call)] = ErrorString(pure.result.error)
              /\ pure.call.op = "cacheClear" => pure.tool.v.fields["success"] = Bool(FALSE)
        /\ (pure.result.ok /\ pure.result.v = Null /\ pure.call.op = "getApiDetails")
              => NotFound(pure.tool.v, "endpoint", <<"E", "n", "d", "p", "o", "i", "n", "t", " ", "n", "o", "t", " ", "f", "o", "u", "n", "d">>)
        /\ (pure.result.ok /\ pure.result.v = Null /\ pure.call.op = "getModelDetails")
              => NotFound(pure.tool.v, "model", <<"M", "o", "d", "e", "l", " ", "n", "o", "t", " ", "f", "o", "u", "n", "d">>)

\* a tool is called on a document of unknown version: the operation raises,
\* the handler returns
C25_Witness ==
    /\ ToolCalled
    /\ pure.fetched
    /\ pure.call.op = "searchApi"
    /\ ~pure.result.ok
    /\ pure.tool.ok
    /\ "error" \in DOMAIN pure.tool.v.fields

\* ---------------------------------------------------------------------
\* searchApi and listAllApi: properties
\* ---------------------------------------------------------------------

Range(seq) == {seq[i] : i \in 1..Len(seq)}

\* the text contains the query, whatever the case of either
ContainsText(value, query) ==
    /\ value.t = "string"
    /\ Includes(ToLowerCase(value.chars), ToLowerCase(query))

\* the (path, method) pairs of the document whose operation exists
OperationPairs(paths) ==
    {pair \in Range(PathTexts) \X Range(MethodTexts) :
        /\ Text(pair[1]) \in DOMAIN OwnEntries(paths)
        /\ IsTruthy(Get(paths, Text(pair[1])))
        /\ IsTruthy(Get(Get(paths, Text(pair[1])), Text(pair[2])))}

\* the operation at the pair matches the query
MatchesQuery(paths, pair, query) ==
    LET operation == Get(Get(paths, Text(pair[1])), Text(pair[2]))
        tags == Get(operation, "tags")
        parameters == Get(operation, "parameters")
    IN \/ ContainsText(Str(pair[1]), query)
       \/ ContainsText(Str(pair[2]), query)
       \/ ContainsText(Get(operation, "summary"), query)
       \/ ContainsText(Get(operation, "description"), query)
       \/ ContainsText(Get(operation, "operationId"), query)
       \/ /\ tags.t = "array"
          /\ \E i \in 1..Len(tags.items) : ContainsText(tags.items[i], query)
       \/ /\ parameters.t = "array"
          /\ \E i \in 1..Len(parameters.items) :
                \/ ContainsText(Get(parameters.items[i], "name"), query)
                \/ ContainsText(Get(parameters.items[i], "description"), query)

SearchReturned ==
    /\ Called
    /\ pure.fetched
    /\ pure.call.op = "searchApi"
    /\ pure.result.ok

ListCalled ==
    /\ Called
    /\ pure.fetched
    /\ pure.call.op = "listAllApi"
    /\ normalizeSpec(pure.spec).ok
    /\ normalizeSpec(pure.spec).v.paths.t = "object"

\* the names of the groups of an endpoint: its tags, or "Untagged"
GroupsOf(endpoint) ==
    LET tags == endpoint.fields.tags IN
    IF tags.t = "array" /\ Len(tags.items) > 0
    THEN {Text(tags.items[i].chars) : i \in 1..Len(tags.items)}
    ELSE {"Untagged"}

\* the result of listAllApi is the list of the operations, grouped
Listed(result, paths) ==
    LET endpoints == result.fields.endpoints.items
        grouped == result.fields.groupedByTag.fields
    IN /\ {<<e.fields.path, e.fields.method>> : e \in Range(endpoints)}
          = {<<Str(pair[1]), Str(ToUpperCase(pair[2]))>> : pair \in OperationPairs(paths)}
       /\ Len(endpoints) = Cardinality(OperationPairs(paths))
       /\ result.fields.total = Num(Len(endpoints))
       /\ \A e \in Range(endpoints) :
             /\ \A g \in GroupsOf(e) :
                   g \in DOMAIN grouped /\ e \in Range(grouped[g].items)
             /\ \E g \in DOMAIN grouped : e \in Range(grouped[g].items)
       /\ \A g \in DOMAIN grouped :
             \A e \in Range(grouped[g].items) :
                e \in Range(endpoints) /\ g \in GroupsOf(e)

\* C27: listAllApi returns every operation of the document exactly once,
\* total is their number, and groupedByTag has each endpoint under each of
\* its tags, or under "Untagged" when it has none: every endpoint is in at
\* least one group and no group has an endpoint that is not in endpoints.
C27_AsStated ==
    ListCalled =>
        /\ pure.result.ok
        /\ Listed(pure.result.v, normalizeSpec(pure.spec).v.paths)

\* ---------------------------------------------------------------------
\* One obtain: order and number of the requests
\* ---------------------------------------------------------------------

\* C28: within one obtain, the check has completed or failed when the
\* decision to fetch again is made; the fetch has completed when the new
\* entry is written; and the write has completed when the document is
\* returned: a fetched document is never returned before its entry is in the
\* cache file.
C28_Ordering ==
    \A p \in Procs :
       IsObtain(p) =>
          /\ (HasEntry(p) /\ (proc[p].pc = "fetch" \/ proc[p].gets > 0))
                => proc[p].heads = 1 /\ proc[p].head.kind # "none" /\ proc[p].isModified
          /\ (proc[p].opens > 0 \/ proc[p].pc \in {"write", "writing"})
                => proc[p].gets = 1 /\ FetchSucceeded(p)
          /\ (proc[p].pc = "done" /\ proc[p].path \in {"created", "refreshed"})
                => /\ proc[p].writes = 1
                   /\ proc[p].ret = Doc(proc[p].newEntry.spec)
                   /\ files[getCacheFilePath(proc[p].url)] = proc[p].newEntry

\* an obtain went through the check, the fetch and the write, and returns the
\* fetched document
C28_Witness ==
    \E p \in Procs :
       /\ IsObtain(p)
       /\ proc[p].pc = "done"
       /\ proc[p].path = "refreshed"
       /\ proc[p].heads = 1 /\ proc[p].gets = 1 /\ proc[p].writes = 1
       /\ proc[p].ret = Doc(proc[p].newEntry.spec)
       /\ proc[p].ret # Doc(proc[p].cachedEntry.spec)

\* C29: one obtain issues at most one lightweight check, and none when it
\* read no entry, and at most one full fetch; a failed full fetch is never
\* tried again: the obtain ends there, with the document of the entry it
\* read (the single fallback) or, without an entry, with the error.
C29_RequestBudget ==
    \A p \in Procs :
       IsObtain(p) =>
          /\ proc[p].heads <= 1
          /\ proc[p].gets <= 1
          /\ ~HasEntry(p) => proc[p].heads = 0
          /\ FetchFailed(p) =>
                /\ Ended(p)
                /\ IF HasEntry(p)
                   THEN /\ proc[p].pc = "done"
                        /\ proc[p].path = "fallback"
                        /\ proc[p].ret = Doc(proc[p].cachedEntry.spec)
                   ELSE proc[p].pc = "raised"

\* an obtain made its check and its fetch, the fetch failed, and the obtain
\* fell back to the entry
C29_Witness ==
    \E p \in Procs :
       /\ IsObtain(p)
       /\ HasEntry(p)
       /\ FetchFailed(p)
       /\ proc[p].heads = 1
       /\ proc[p].path = "fallback"

\* ---------------------------------------------------------------------
\* The login flow: number of requests
\* ---------------------------------------------------------------------

\* the positions, in the requests sent, of the requests of the kind
SentOf(kind) == {i \in DOMAIN pure.sent : pure.sent[i].kind = kind}

LoginConfigured == IsTruthy(pure.config.loginUrl)

\* the login request has a body that is to be sent and is not JSON
LoginBodyUnparsed ==
    /\ IsTruthy(pure.config.loginBody)
    /\ ToUpperCase(IF IsTruthy(pure.config.loginMethod)
                   THEN pure.config.loginMethod.chars
                   ELSE <<"P", "O", "S", "T">>) \in BodyMethods
    /\ ~JsonParse(pure.config.loginBody.chars).ok

\* C30, as stated: with a login flow configured, the login request is issued
\* exactly once per full fetch, and not at all in an obtain without a full
\* fetch.
C30_AsStated ==
    (Requesting /\ LoginConfigured)
    => Cardinality(SentOf("login")) = Cardinality(SentOf("get"))

\* C30, as the code has it: with a login flow configured whose body, if one
\* is sent, parses as JSON, the login request is issued exactly once before
\* each request for the document, the lightweight check as well as the full
\* fetch, hence also in an obtain without a full fetch; no login request is
\* issued when the body does not parse or no login flow is configured.
C30_LoginPerRequest ==
    Requesting =>
        IF LoginConfigured /\ ~LoginBodyUnparsed
        THEN /\ \A i \in DocumentRequests : i > 1 /\ pure.sent[i - 1].kind = "login"
             /\ \A i \in SentOf("login") :
                   i < Len(pure.sent) /\ pure.sent[i + 1].kind \in {"head", "get"}
             /\ Cardinality(SentOf("login")) = Cardinality(DocumentRequests)
        ELSE SentOf("login") = {}

\* an obtain that ends with the check, the entry being fresh, has issued the
\* login request before it
C30_Witness ==
    /\ Requesting /\ LoginConfigured
    /\ pure.pc = "done"
    /\ Len(pure.sent) = 2
    /\ pure.sent[1].kind = "login" /\ pure.sent[2].kind = "head"
    /\ pure.ret = Doc(pure.cachedEntry.spec)

\* ---------------------------------------------------------------------
\* The cache key and the Cache Entry: properties
\* ---------------------------------------------------------------------

\* request p works for one URL: an obtain, or clearCache(url)
ForOneUrl(p) == IsObtain(p) \/ proc[p].op = "clearCache"

\* C31: the cache key is a function of the URL alone, and an obtain or a
\* clear for one URL never reads, writes or deletes the entry of another
\* URL: the entry an obtain reads is an entry of its URL, and a file that
\* changes while no clearAllCache runs is the file of the URL of a request
\* that took the step.
C31_KeyIsolation ==
    [][/\ \A p \in Procs :
             (IsObtain(p) /\ proc[p].pc = "readFile" /\ proc'[p].cachedEntry # NoEntry)
             => proc'[p].cachedEntry.url = proc[p].url
       /\ (\A p \in Procs : proc[p].op # "clearAllCache")
          => \A f \in Paths :
                files'[f] # files[f]
                => /\ \E p \in Procs :
                         /\ ForOneUrl(p)
                         /\ proc'[p] # proc[p]
                         /\ f = getCacheFilePath(proc[p].url)
                   /\ \A p \in Procs :
                         (ForOneUrl(p) /\ proc'[p] # proc[p])
                         => f = getCacheFilePath(proc[p].url)
      ]_vars

\* an obtain for the configured URL has read its entry and written a new
\* one, a clear for the other URL has not happened, and the entry of the
\* other URL is as it was
C31_Witness ==
    \E p \in Procs :
       /\ IsObtain(p)
       /\ proc[p].pc = "done" /\ proc[p].path = "refreshed"
       /\ proc[p].cachedEntry.url = ConfigUrl
       /\ ConfigFile = proc[p].newEntry
       /\ getCacheFilePath(OtherUrl) # getCacheFilePath(ConfigUrl)
       /\ files[getCacheFilePath(OtherUrl)] = OtherEntry

\* C32 as stated: an obtain that ends on the fresh path or on the fallback
\* path leaves the Cache Entry exactly as it was, with the validators, the
\* timestamp and the document it read; the file is touched only in a call
\* whose full fetch succeeded.
C32_AsStated ==
    \A p \in Procs :
       IsObtain(p) =>
          /\ (Ended(p) /\ proc[p].path \in {"fresh", "fallback"})
                => ConfigFile = proc[p].cachedEntry
          /\ proc[p].opens > 0 => FetchSucceeded(p)

\* C33: every Cache Entry pairs a document with the validators of the GET
\* response that delivered it: the entry an obtain writes has the etag, the
\* last-modified and the document of its own full fetch, never the
\* validators of its check, so that the validators of every entry on disk
\* are those the server sends for the document of the entry.
C33_ValidatorsOfTheFetch ==
    /\ \A p \in Procs :
          (IsObtain(p) /\ proc[p].newEntry # NoEntry)
          => /\ FetchSucceeded(p)
             /\ proc[p].newEntry.etag = proc[p].get.etag
             /\ proc[p].newEntry.lastModified = proc[p].get.lm
             /\ proc[p].newEntry.spec = proc[p].get.doc
    /\ ConfigFile.kind = "entry"
       => /\ ConfigFile.etag = EtagOf(ConfigFile.spec, remote.etagOn)
          /\ ConfigFile.lastModified = LmOf(ConfigFile.spec, remote.lmOn)

\* the document changed between the check and the full fetch of an obtain:
\* the entry on disk has the validators of the fetch, not those of the check
C33_Witness ==
    \E p \in Procs :
       /\ IsObtain(p) /\ proc[p].pc = "done" /\ proc[p].path = "refreshed"
       /\ proc[p].head.kind = "response" /\ Truthy(proc[p].head.etag)
       /\ Truthy(proc[p].get.etag)
       /\ proc[p].head.etag # proc[p].get.etag
       /\ ConfigFile.kind = "entry"
       /\ ConfigFile.etag = proc[p].get.etag
       /\ ConfigFile.spec = proc[p].get.doc

\* the entry carries neither an etag nor a last-modified value
NoValidators(entry) ==
    entry # NoEntry /\ ~Truthy(entry.etag) /\ ~Truthy(entry.lastModified)

\* C34: an obtain that reads an entry with neither an etag nor a
\* last-modified value judges it stale whatever its lightweight check
\* returns, and performs a full fetch: the obtain never ends with the check,
\* and when it has ended it has sent one HEAD and one GET request.
C34_NoValidatorsStale ==
    (Requesting /\ NoValidators(pure.cachedEntry))
    => /\ pure.head.kind # "none" => (pure.pc = "fetch" \/ SentOf("get") # {})
       /\ pure.pc = "done"
          => /\ Cardinality(SentOf("head")) = 1
             /\ Cardinality(SentOf("get")) = 1
             /\ \A i \in SentOf("head"), j \in SentOf("get") : i < j

\* the check of an entry without validators was answered with validators,
\* and the obtain went on to the full fetch
C34_Witness ==
    /\ Requesting /\ NoValidators(pure.cachedEntry)
    /\ pure.head.kind = "response" /\ pure.head.status = 200
    /\ Truthy(pure.head.etag) /\ Truthy(pure.head.lm)
    /\ pure.pc = "done"
    /\ SentOf("get") # {}

\* C35: a cache file that exists but cannot be read or parsed is treated as
\* absent: the obtain has no entry, makes no lightweight check, performs a
\* full fetch, overwrites the file when the fetch succeeds and returns the
\* fetched document, and raises when the fetch fails.
C35_UnreadableAsAbsent ==
    \A p \in Procs :
       (IsObtain(p) /\ proc[p].unreadable)
       => /\ ~HasEntry(p)
          /\ proc[p].heads = 0
          /\ proc[p].pc = "fetch" \/ proc[p].gets = 1
          /\ FetchFailed(p) => proc[p].pc = "raised"
          /\ proc[p].writes = 1
                => /\ proc[p].pc = "done"
                   /\ proc[p].ret = Doc(proc[p].get.doc)
                   /\ ConfigFile = proc[p].newEntry
                   /\ ConfigFile.spec = proc[p].get.doc

\* an obtain found a file it could not parse, fetched and wrote the entry
C35_Witness ==
    \E p \in Procs :
       /\ IsObtain(p) /\ proc[p].unreadable
       /\ proc[p].pc = "done" /\ proc[p].writes = 1
       /\ ConfigFile.kind = "entry"

\* ---------------------------------------------------------------------
\* Clear and obtain, overlapping
\* ---------------------------------------------------------------------

\* request q is a clear that covers the entry of the configured URL
ClearsConfigUrl(q) ==
    \/ proc[q].op = "clearCache" /\ proc[q].url = ConfigUrl
    \/ proc[q].op = "clearAllCache"

\* C36: clear is not synchronised with obtain. The file of the entry is
\* removed only by the unlink of a clear, and once removed it comes back
\* only by an obtain that opens it for writing, which a completed clear does
\* not prevent: an obtain that read the entry before the clear writes the
\* entry again after it, or returns the cleared document as its fallback.
C36_ClearNotSynchronised ==
    [][/\ (ConfigFile # Absent /\ files'[getCacheFilePath(ConfigUrl)] = Absent)
          => \E q \in Procs :
                /\ ClearsConfigUrl(q)
                /\ proc[q].pc \in {"unlink", "unlinkAll"}
                /\ proc'[q] # proc[q]
       /\ (ConfigFile = Absent /\ files'[getCacheFilePath(ConfigUrl)] # Absent)
          => \E p \in Procs :
                /\ IsObtain(p)
                /\ proc[p].pc = "write"
                /\ proc'[p].pc = "writing"
      ]_vars

\* an obtain read the entry, a clear deleted the file and completed, and
\* the obtain then wrote the entry again
C36_Witness ==
    \E p, q \in Procs :
       /\ ClearsConfigUrl(q) /\ proc[q].pc = "done" /\ proc[q].path = "unlinked"
       /\ IsObtain(p) /\ HasEntry(p)
       /\ proc[p].pc = "done" /\ proc[p].path = "refreshed"
       /\ ~proc[p].unlinked
       /\ ConfigFile = proc[p].newEntry

\* ---------------------------------------------------------------------
\* SwaggerClient: the held document
\* ---------------------------------------------------------------------

HeapResolved == pure.fn = "resolveHeap" /\ pure.applied

\* every object of the heap before is in the heap after, as it was
Untouched(before, after) ==
    \A a \in DOMAIN before : a \in DOMAIN after /\ after[a] = before[a]

\* C38: after resolveSchema(document, fragment) has returned or thrown,
\* every object of the document and of the fragment is as it was before the
\* call, every object the call wrote to being one it created; a second
\* resolution of the same fragment against the same document gives a result
\* equal to the first.
C38_ResolverPure ==
    HeapResolved =>
        /\ Untouched(pure.heap, pure.first.h)
        /\ Untouched(pure.first.h, pure.second.h)
        /\ Load(pure.first.h, Ptr(<<"spec">>)) = pure.spec
        /\ Load(pure.first.h, Link(pure.schema, <<"schema">>)) = pure.schema
        /\ pure.second.ok = pure.first.ok
        /\ pure.first.ok
              => /\ Load(pure.second.h, pure.second.v) = Load(pure.first.h, pure.first.v)
                 /\ resolveSchema(pure.spec, pure.schema, {})
                       = Returned(Load(pure.first.h, pure.first.v))
        /\ ~pure.first.ok
              => /\ pure.second.error = pure.first.error
                 /\ resolveSchema(pure.spec, pure.schema, {}) = Thrown(pure.first.error)

\* a fragment with nested references was resolved: the call created objects,
\* its result differs from the fragment, and the fragment is as it was
C38_Witness ==
    /\ HeapResolved
    /\ pure.first.ok
    /\ pure.first.v.t = "pointer"
    /\ pure.first.v.a \notin DOMAIN pure.heap
    /\ Get(pure.schema, "properties").t = "object"
    /\ Load(pure.first.h, pure.first.v) # pure.schema
    /\ Load(pure.first.h, Link(pure.schema, <<"schema">>)) = pure.schema

\* ---------------------------------------------------------------------
\* Resolver: the references left in the result
\* ---------------------------------------------------------------------

\* the object is treated as a reference: if (schema.$ref)
IsReference(v) == v.t = "object" /\ IsTruthy(Get(v, "$ref"))

\* the schemas directly below v at the positions resolveSchema descends to
NestedPositions(v) ==
    LET under(k) == Get(v, k)
        members(k) == IF under(k).t = "array"
                      THEN {under(k).items[i] : i \in 1..Len(under(k).items)}
                      ELSE {}
    IN (IF under("properties").t = "object"
        THEN {under("properties").fields[k] : k \in DOMAIN under("properties").fields}
        ELSE {})
       \cup members("items") \cup members("allOf") \cup members("oneOf")
       \cup members("anyOf")
       \cup {under(k) : k \in {k \in {"items", "additionalProperties", "not"} :
                                 under(k).t = "object"}}

\* the references left in v at the positions the resolver went through: the
\* fragment itself, and below a fragment that is no reference its properties,
\* items, additionalProperties, allOf, oneOf, anyOf members and not
RECURSIVE ReferencesLeft(_)
ReferencesLeft(v) ==
    IF IsReference(v) THEN {v}
    ELSE IF v.t = "object" THEN UNION {ReferencesLeft(c) : c \in NestedPositions(v)}
    ELSE {}

\* the pointer of the reference resolves against the document
Resolvable(spec, v) ==
    /\ Get(v, "$ref").t = "string"
    /\ resolveRef(spec, Get(v, "$ref").chars).ok

\* C39 as stated: in the fragment resolveSchema returns, a $ref is left at a
\* position the resolver went through only if its pointer does not resolve
\* against the document (missing, through a non-container, or external);
\* every reference that resolves has been replaced, by its target or by the
\* circular-reference placeholder.
C39_AsStated ==
    (Resolved /\ pure.result.ok)
    => \A v \in ReferencesLeft(pure.result.v) : ~Resolvable(pure.spec, v)

====
